---- MODULE Spec2Model ----
(***************************************************************************)
(* Smart Records System: the authentication service (auth_manager.py), the *)
(* record models (models.py) and the persistence gateway (db_manager.py)   *)
(* as a state machine over the three MySQL tables.                         *)
(*                                                                         *)
(* Values.  A Python str / SQL VARCHAR is a tuple of one-character         *)
(* strings, so that len(), strip(), LIKE and the column width act on it.   *)
(* Python None and SQL NULL are the empty tuple None; a value that may be  *)
(* absent (current_user, department_id, an aggregate) is None or Some(v).  *)
(* A call ends as [outcome |-> "return", value |-> ...] or, when an        *)
(* exception leaves it, as [outcome |-> "raise", value |-> <message>].     *)
(***************************************************************************)
EXTENDS Integers, Sequences, FiniteSets, TLC

VARIABLES
    users,          \* rows of table users
    departments,    \* rows of table departments
    employees,      \* rows of table employees
    auto_increment, \* next AUTO_INCREMENT id of each table
    current_user,   \* AuthManager.current_user
    connection,     \* DatabaseManager.connection: None or the open session
    server_connections, \* the sessions the server was asked for: "open"/"closed"
    last,           \* the last call: its name, arguments and how it ended
    pre,            \* the tables and the session as they were before that call
    app             \* SmartRecordsApp: its windows and the event loop

vars == <<users, departments, employees, auto_increment, current_user,
          connection, server_connections, last, pre, app>>

gateway == <<connection, server_connections>>

\* No SmartRecordsApp was constructed: the services are called directly.
no_app == [login_window |-> FALSE, main_window |-> FALSE, mainloop |-> "not started"]

None == <<>>
Some(v) == <<v>>

(***************************************************************************)
(* Bounds of the model.                                                    *)
(***************************************************************************)
MaxUsers == 2
MaxDepartments == 1
MaxEmployees == 2
MaxConnections == 2

(***************************************************************************)
(* Strings.                                                                *)
(***************************************************************************)
Whitespace == {" ", "\t", "\n"}

RECURSIVE lstrip(_)
lstrip(s) ==
    IF s # <<>> /\ Head(s) \in Whitespace THEN lstrip(Tail(s)) ELSE s

RECURSIVE rstrip(_)
rstrip(s) ==
    IF s # <<>> /\ s[Len(s)] \in Whitespace
    THEN rstrip(SubSeq(s, 1, Len(s) - 1))
    ELSE s

\* str.strip(): leading and trailing whitespace removed.
strip(s) == rstrip(lstrip(s))

UpperCase == <<"A", "B", "C", "D", "E", "F", "G", "H", "I", "J", "K", "L", "M",
               "N", "O", "P", "Q", "R", "S", "T", "U", "V", "W", "X", "Y", "Z">>
LowerCase == <<"a", "b", "c", "d", "e", "f", "g", "h", "i", "j", "k", "l", "m",
               "n", "o", "p", "q", "r", "s", "t", "u", "v", "w", "x", "y", "z">>

FoldMap ==
    [c \in {UpperCase[i] : i \in 1..Len(UpperCase)} |->
        LowerCase[CHOOSE i \in 1..Len(UpperCase) : UpperCase[i] = c]]

fold_char(c) == IF c \in DOMAIN FoldMap THEN FoldMap[c] ELSE c

\* The tables are created without a COLLATE clause, so every VARCHAR column
\* takes the server's default collation, which compares without regard to
\* case: '=', UNIQUE, LIKE and ORDER BY all act on the folded characters.
\* a = b in a WHERE clause or a UNIQUE index.
sql_equal(a, b) ==
    /\ Len(a) = Len(b)
    /\ \A i \in 1..Len(a) : fold_char(a[i]) = fold_char(b[i])

\* Width of every VARCHAR(255) column.
VarcharLen == 255

(***************************************************************************)
(* Driver errors (mysql.connector.Error), by their message.                *)
(***************************************************************************)
ErrLostConnection == "2013 (HY000): Lost connection to MySQL server during query"
ErrDuplicateEntry == "1062 (23000): Duplicate entry"
ErrDataTooLong == "1406 (22001): Data too long for column"
ErrForeignKey == "1452 (23000): Cannot add or update a child row: a foreign key constraint fails"

(***************************************************************************)
(* Rows in a result set, as a sequence ordered by the key function.        *)
(***************************************************************************)
RECURSIVE by_id(_)
by_id(rows) ==
    IF rows = {} THEN <<>>
    ELSE LET r == CHOOSE x \in rows : \A y \in rows : x.id <= y.id
         IN <<r>> \o by_id(rows \ {r})

(***************************************************************************)
(* The persistence gateway.  A statement is given by what it would do to   *)
(* the tables; `lost` says the server drops the connection on it.          *)
(***************************************************************************)

\* DatabaseManager.execute_query: the rows, or the driver's error raised
\* (the finally block only closes the cursor).
execute_query(rows, lost) ==
    IF lost
    THEN [outcome |-> "raise", value |-> ErrLostConnection]
    ELSE [outcome |-> "return", value |-> rows]

\* A cursor as conn.cursor() hands it out: nothing executed on it yet.
new_cursor == [rowcount |-> -1, lastrowid |-> None]

\* DatabaseManager.execute_update: execute, commit, return cursor.rowcount;
\* `stmt` is [error, rowcount, lastrowid] of the statement on this cursor.
execute_update(stmt, lost) ==
    IF lost
    THEN [outcome |-> "raise", value |-> ErrLostConnection]
    ELSE IF stmt.error # ""
    THEN [outcome |-> "raise", value |-> stmt.error]
    ELSE [outcome |-> "return", value |-> stmt.rowcount]

\* DatabaseManager.get_last_insert_id: lastrowid of a cursor opened for the
\* purpose, on which no statement ran.
get_last_insert_id == new_cursor.lastrowid

\* Raised by connect when the server refuses the session.
ErrConnection == "Failed to connect to MySQL"

\* connect() that asks the server for a session on every call.
connect_anew(conn, server, refused) ==
    IF refused
    THEN [outcome |-> "raise", value |-> ErrConnection,
          connection |-> conn, server |-> server]
    ELSE [outcome |-> "return", value |-> Some(Len(server) + 1),
          connection |-> Some(Len(server) + 1), server |-> Append(server, "open")]

\* DatabaseManager.connect: the session held, or a new one when none is
\* held; `refused` says the server turns a new session down.
connect(conn, server, refused) ==
    IF conn = None
    THEN IF refused
         THEN [outcome |-> "raise", value |-> ErrConnection,
               connection |-> conn, server |-> server]
         ELSE [outcome |-> "return", value |-> Some(Len(server) + 1),
               connection |-> Some(Len(server) + 1),
               server |-> Append(server, "open")]
    ELSE [outcome |-> "return", value |-> conn, connection |-> conn, server |-> server]

\* DatabaseManager.close
close(conn, server) ==
    IF conn # None
    THEN [connection |-> None, server |-> [server EXCEPT ![conn[1]] = "closed"]]
    ELSE [connection |-> conn, server |-> server]

(***************************************************************************)
(* Table users.                                                            *)
(***************************************************************************)

\* SELECT ... FROM users WHERE username = %s
select_users_by_username(tbl, name) ==
    by_id({u \in tbl : sql_equal(u.username, name)})

\* INSERT INTO users that leaves the new row as the only one.
insert_user_replacing(tbl, auto, name, digest) ==
    [error |-> "", rowcount |-> 1,
     table |-> {[id |-> auto, username |-> name, password |-> digest]},
     auto |-> auto + 1]

\* INSERT INTO users (username, password) VALUES (%s, %s)
insert_user(tbl, auto, name, digest) ==
    IF Len(name) > VarcharLen
    THEN [error |-> ErrDataTooLong, rowcount |-> -1, table |-> tbl, auto |-> auto]
    ELSE IF \E u \in tbl : sql_equal(u.username, name)
    THEN [error |-> ErrDuplicateEntry, rowcount |-> -1, table |-> tbl, auto |-> auto]
    ELSE [error |-> "", rowcount |-> 1,
          table |-> tbl \cup {[id |-> auto, username |-> name, password |-> digest]},
          auto |-> auto + 1]

(***************************************************************************)
(* AuthManager.                                                            *)
(***************************************************************************)

\* hashlib.sha256(password.encode()).hexdigest(): a digest is determined by
\* the password and two passwords never share one.
sha256_hexdigest(text) == [sha256 |-> text]

\* AuthManager.hash_password
hash_password(password) == sha256_hexdigest(password)

MsgUsernameRequired == <<"Username is required">>
MsgPasswordTooShort == <<"Password must be at least 8 characters long">>
MsgUsernameExists == <<"Username already exists">>
MsgRegistered == <<"User registered successfully">>
MsgLoginRequired == <<"Username and password are required">>
\* A message that would tell an unknown username from a wrong password.
MsgUnknownUserLeak == <<"Username not found">>
MsgUnknownUser == <<"Invalid username or password">>
MsgWrongPassword == <<"Invalid username or password">>
MsgLoginSuccessful == <<"Login successful">>

\* A length test that lets a password one character short through.
MinPasswordLenOffByOne == 8 - 1

MinPasswordLen == 8

\* The lookups given the username as typed.
register_lookup_raw(username) == username
login_lookup_raw(username) == username

\* The username the lookup of register_user is given: username.strip().
register_lookup(username) == strip(username)

\* The username the lookup of login is given: username.strip().
login_lookup(username) == strip(username)

auth_return(ok, msg, tbl, auto, session) ==
    [outcome |-> "return", value |-> <<ok, msg>>,
     users |-> tbl, auto |-> auto, current_user |-> session]

auth_raise(error, tbl, auto, session) ==
    [outcome |-> "raise", value |-> error,
     users |-> tbl, auto |-> auto, current_user |-> session]

\* AuthManager.register_user.  fault: 0 no statement fails, 1 the lookup
\* loses the connection, 2 the insert does.
register_user(tbl, auto, session, username, password, fault) ==
    IF username = <<>> \/ strip(username) = <<>>
    THEN auth_return(FALSE, MsgUsernameRequired, tbl, auto, session)
    ELSE IF password = <<>> \/ Len(password) < MinPasswordLen
    THEN auth_return(FALSE, MsgPasswordTooShort, tbl, auto, session)
    ELSE
      LET existing == execute_query(select_users_by_username(tbl, register_lookup(username)),
                                    fault = 1)
      IN IF existing.outcome = "raise"
         THEN auth_raise(existing.value, tbl, auto, session)
         ELSE IF existing.value # <<>>
         THEN auth_return(FALSE, MsgUsernameExists, tbl, auto, session)
         ELSE
           LET stmt == insert_user(tbl, auto, strip(username), hash_password(password))
               done == execute_update(stmt, fault = 2)
           IN IF done.outcome = "raise"
              THEN auth_return(FALSE, <<"Registration failed: ", done.value>>,
                               tbl, auto, session)
              ELSE auth_return(TRUE, MsgRegistered, stmt.table, stmt.auto, session)

\* AuthManager.login.  fault: 0 no statement fails, 1 the lookup does.
login(tbl, auto, session, username, password, fault) ==
    IF username = <<>> \/ password = <<>>
    THEN auth_return(FALSE, MsgLoginRequired, tbl, auto, session)
    ELSE
      LET found == execute_query(select_users_by_username(tbl, login_lookup(username)),
                                 fault = 1)
      IN IF found.outcome = "raise"
         THEN auth_raise(found.value, tbl, auto, session)
         ELSE IF found.value = <<>>
         THEN auth_return(FALSE, MsgUnknownUser, tbl, auto, session)
         ELSE
           LET user == found.value[1]
           IN IF user.password # hash_password(password)
              THEN auth_return(FALSE, MsgWrongPassword, tbl, auto, session)
              ELSE auth_return(TRUE, MsgLoginSuccessful, tbl, auto,
                               Some([id |-> user.id, username |-> user.username]))

\* AuthManager.logout leaving the session as it is.
logout_keep(session) == session

\* AuthManager.logout
logout(session) == None

\* AuthManager.is_authenticated
is_authenticated(session) == session # None

(***************************************************************************)
(* Tables departments and employees.  A department row is                  *)
(* [id, name, description]; an employee row is [id, first_name, last_name, *)
(* email, position, salary, department_id].  phone, hire_date and          *)
(* created_at are stored and returned like position and take part in no    *)
(* statement's WHERE or ORDER BY clause; they are left out of the rows.    *)
(* salary is a whole amount.                                               *)
(***************************************************************************)

\* Order of the characters under the collation (folded first).
CollationOrder == <<"\t", "\n", " ", "%", ".", "@", "_">> \o LowerCase

char_rank(c) == CHOOSE i \in 1..Len(CollationOrder) : CollationOrder[i] = fold_char(c)

RECURSIVE str_less(_, _)
str_less(a, b) ==
    IF b = <<>> THEN FALSE
    ELSE IF a = <<>> THEN TRUE
    ELSE IF char_rank(Head(a)) = char_rank(Head(b)) THEN str_less(Tail(a), Tail(b))
    ELSE char_rank(Head(a)) < char_rank(Head(b))

\* ORDER BY name
RECURSIVE order_by_name(_)
order_by_name(rows) ==
    IF rows = {} THEN <<>>
    ELSE LET r == CHOOSE x \in rows :
                    \A y \in rows \ {x} : str_less(x.name, y.name)
         IN <<r>> \o order_by_name(rows \ {r})

\* ORDER BY e.last_name, e.first_name; rows equal on both come in the order
\* of the primary key.
employee_before(x, y) ==
    \/ str_less(x.last_name, y.last_name)
    \/ /\ sql_equal(x.last_name, y.last_name)
       /\ \/ str_less(x.first_name, y.first_name)
          \/ /\ sql_equal(x.first_name, y.first_name)
             /\ x.id < y.id

RECURSIVE order_by_last_first(_)
order_by_last_first(rows) ==
    IF rows = {} THEN <<>>
    ELSE LET r == CHOOSE x \in rows : \A y \in rows \ {x} : employee_before(x, y)
         IN <<r>> \o order_by_last_first(rows \ {r})

\* A department_name column that is never filled in.
department_name_absent(depts, e) == None

\* SELECT e.*, d.name as department_name FROM employees e
\* LEFT JOIN departments d ON e.department_id = d.id
department_name_of(depts, e) ==
    IF \E d \in depts : e.department_id = Some(d.id)
    THEN Some((CHOOSE d \in depts : e.department_id = Some(d.id)).name)
    ELSE None

left_join(depts, e) ==
    [id |-> e.id, first_name |-> e.first_name, last_name |-> e.last_name,
     email |-> e.email, position |-> e.position, salary |-> e.salary,
     department_id |-> e.department_id,
     department_name |-> department_name_of(depts, e)]

joined(depts, emps) == {left_join(depts, e) : e \in emps}

\* INSERT INTO departments on a table whose name column is not UNIQUE.
insert_department_any(depts, auto, name, description) ==
    [error |-> "", rowcount |-> 1,
     table |-> depts \cup {[id |-> auto, name |-> name, description |-> description]},
     auto |-> auto + 1]

\* INSERT INTO departments (name, description) VALUES (%s, %s)
insert_department(depts, auto, name, description) ==
    IF Len(name) > VarcharLen \/ Len(description) > VarcharLen
    THEN [error |-> ErrDataTooLong, rowcount |-> -1, table |-> depts, auto |-> auto]
    ELSE IF \E d \in depts : sql_equal(d.name, name)
    THEN [error |-> ErrDuplicateEntry, rowcount |-> -1, table |-> depts, auto |-> auto]
    ELSE [error |-> "", rowcount |-> 1,
          table |-> depts \cup {[id |-> auto, name |-> name, description |-> description]},
          auto |-> auto + 1]

\* The same UPDATE on a connection that counts the rows the WHERE clause
\* matched (client flag FOUND_ROWS), changed or not.
update_department_found_rows(depts, dept_id, name, description) ==
    IF \E d \in depts : d.id = dept_id
    THEN [error |-> "", rowcount |-> 1,
          table |-> {IF d.id = dept_id
                     THEN [id |-> dept_id, name |-> name, description |-> description]
                     ELSE d : d \in depts}]
    ELSE [error |-> "", rowcount |-> 0, table |-> depts]

\* UPDATE departments SET name = %s, description = %s WHERE id = %s
\* rowcount counts the rows the statement changed.
update_department(depts, dept_id, name, description) ==
    IF ~ \E d \in depts : d.id = dept_id
    THEN [error |-> "", rowcount |-> 0, table |-> depts]
    ELSE
      LET old == CHOOSE d \in depts : d.id = dept_id
          new == [id |-> dept_id, name |-> name, description |-> description]
      IN IF new = old
         THEN [error |-> "", rowcount |-> 0, table |-> depts]
         ELSE IF Len(name) > VarcharLen \/ Len(description) > VarcharLen
         THEN [error |-> ErrDataTooLong, rowcount |-> -1, table |-> depts]
         ELSE IF \E d \in depts \ {old} : sql_equal(d.name, name)
         THEN [error |-> ErrDuplicateEntry, rowcount |-> -1, table |-> depts]
         ELSE [error |-> "", rowcount |-> 1, table |-> (depts \ {old}) \cup {new}]

\* The same foreign key declared ON DELETE CASCADE.
on_delete_cascade(emps, dept_id) ==
    {e \in emps : e.department_id # Some(dept_id)}

\* FOREIGN KEY (department_id) REFERENCES departments(id) ON DELETE SET NULL
on_delete_set_null(emps, dept_id) ==
    {IF e.department_id = Some(dept_id)
     THEN [e EXCEPT !.department_id = None]
     ELSE e : e \in emps}

\* DELETE FROM departments WHERE id = %s
delete_department(depts, emps, dept_id) ==
    IF \E d \in depts : d.id = dept_id
    THEN [error |-> "", rowcount |-> 1,
          table |-> {d \in depts : d.id # dept_id},
          employees |-> on_delete_set_null(emps, dept_id)]
    ELSE [error |-> "", rowcount |-> 0, table |-> depts, employees |-> emps]

employee_row(id, f) ==
    [id |-> id, first_name |-> f.first_name, last_name |-> f.last_name,
     email |-> f.email, position |-> f.position, salary |-> f.salary,
     department_id |-> f.department_id]

too_long(f) ==
    \/ Len(f.first_name) > VarcharLen \/ Len(f.last_name) > VarcharLen
    \/ Len(f.email) > VarcharLen \/ Len(f.position) > VarcharLen

\* A department_id column without the FOREIGN KEY: any value is stored.
foreign_key_unchecked(depts, f) == TRUE

\* FOREIGN KEY (department_id) REFERENCES departments(id)
foreign_key_ok(depts, f) ==
    f.department_id = None \/ \E d \in depts : f.department_id = Some(d.id)

\* INSERT INTO employees (first_name, ..., hire_date) VALUES (%s, ..., %s)
insert_employee(depts, emps, auto, f) ==
    IF too_long(f)
    THEN [error |-> ErrDataTooLong, rowcount |-> -1, table |-> emps, auto |-> auto]
    ELSE IF \E e \in emps : sql_equal(e.email, f.email)
    THEN [error |-> ErrDuplicateEntry, rowcount |-> -1, table |-> emps, auto |-> auto]
    ELSE IF ~ foreign_key_ok(depts, f)
    THEN [error |-> ErrForeignKey, rowcount |-> -1, table |-> emps, auto |-> auto]
    ELSE [error |-> "", rowcount |-> 1,
          table |-> emps \cup {employee_row(auto, f)}, auto |-> auto + 1]

\* UPDATE employees SET first_name = %s, ..., hire_date = %s WHERE id = %s
update_employee(depts, emps, emp_id, f) ==
    IF ~ \E e \in emps : e.id = emp_id
    THEN [error |-> "", rowcount |-> 0, table |-> emps]
    ELSE
      LET old == CHOOSE e \in emps : e.id = emp_id
          new == employee_row(emp_id, f)
      IN IF new = old
         THEN [error |-> "", rowcount |-> 0, table |-> emps]
         ELSE IF too_long(f)
         THEN [error |-> ErrDataTooLong, rowcount |-> -1, table |-> emps]
         ELSE IF \E e \in emps \ {old} : sql_equal(e.email, f.email)
         THEN [error |-> ErrDuplicateEntry, rowcount |-> -1, table |-> emps]
         ELSE IF ~ foreign_key_ok(depts, f)
         THEN [error |-> ErrForeignKey, rowcount |-> -1, table |-> emps]
         ELSE [error |-> "", rowcount |-> 1, table |-> (emps \ {old}) \cup {new}]

\* DELETE FROM employees, with no WHERE clause.
delete_every_employee(emps, emp_id) ==
    [error |-> "", rowcount |-> Cardinality(emps), table |-> {}]

\* DELETE FROM employees WHERE id = %s
delete_employee(emps, emp_id) ==
    [error |-> "",
     rowcount |-> IF \E e \in emps : e.id = emp_id THEN 1 ELSE 0,
     table |-> {e \in emps : e.id # emp_id}]

\* expr LIKE pattern: % stands for any run of characters, _ for any one.
RECURSIVE like(_, _)
like(text, pattern) ==
    IF pattern = <<>> THEN text = <<>>
    ELSE IF Head(pattern) = "%"
    THEN like(text, Tail(pattern)) \/ (text # <<>> /\ like(Tail(text), pattern))
    ELSE IF text = <<>> THEN FALSE
    ELSE IF Head(pattern) = "_" THEN like(Tail(text), Tail(pattern))
    ELSE /\ fold_char(Head(text)) = fold_char(Head(pattern))
         /\ like(Tail(text), Tail(pattern))

\* SUM(DISTINCT salary): equal salaries counted once.
RECURSIVE sum_distinct_salary(_)
sum_distinct_salary(emps) ==
    IF emps = {} THEN 0
    ELSE LET e == CHOOSE x \in emps : TRUE
         IN e.salary + sum_distinct_salary({x \in emps : x.salary # e.salary})

\* salary aggregates of SELECT COUNT(*), AVG, MIN, MAX, SUM FROM employees:
\* over no row COUNT is 0 and the other four are NULL.
RECURSIVE sum_salary(_)
sum_salary(emps) ==
    IF emps = {} THEN 0
    ELSE LET e == CHOOSE x \in emps : TRUE
         IN e.salary + sum_salary(emps \ {e})

\* AVG of a DECIMAL column: the quotient to six decimals, rounded half up,
\* as <<whole, millionths>>.
MicroPerUnit == 1000000

avg_salary(emps) ==
    LET n == Cardinality(emps)
        total == sum_salary(emps)
        micro == ((total % n) * MicroPerUnit + (n \div 2)) \div n
    IN <<total \div n + micro \div MicroPerUnit, micro % MicroPerUnit>>

select_statistics(emps) ==
    IF emps = {}
    THEN <<[total_employees |-> 0, avg_salary |-> None, min_salary |-> None,
            max_salary |-> None, total_salary |-> None]>>
    ELSE <<[total_employees |-> Cardinality(emps),
            avg_salary |-> Some(avg_salary(emps)),
            min_salary |-> Some((CHOOSE e \in emps :
                                   \A x \in emps : e.salary <= x.salary).salary),
            max_salary |-> Some((CHOOSE e \in emps :
                                   \A x \in emps : e.salary >= x.salary).salary),
            total_salary |-> Some(sum_salary(emps))]>>

(***************************************************************************)
(* DepartmentModel and EmployeeModel.  fault: 0 no statement fails, n the  *)
(* n-th statement of the call loses the connection.                        *)
(***************************************************************************)
model_result(outcome, value, depts, emps, auto) ==
    [outcome |-> outcome, value |-> value,
     departments |-> depts, employees |-> emps, auto |-> auto]

\* DepartmentModel.create
department_create(depts, emps, auto, name, description, fault) ==
    LET stmt == insert_department(depts, auto, name, description)
        done == execute_update(stmt, fault = 1)
    IN IF done.outcome = "raise"
       THEN model_result("raise", done.value, depts, emps, auto)
       ELSE IF fault = 2
       THEN model_result("raise", ErrLostConnection, stmt.table, emps, stmt.auto)
       ELSE model_result("return", get_last_insert_id, stmt.table, emps, stmt.auto)

\* DepartmentModel.get_all
department_get_all(depts, fault) ==
    execute_query(order_by_name(depts), fault = 1)

\* DepartmentModel.get_by_id
department_get_by_id(depts, dept_id, fault) ==
    LET results == execute_query(by_id({d \in depts : d.id = dept_id}), fault = 1)
    IN IF results.outcome = "raise" THEN results
       ELSE [outcome |-> "return",
             value |-> IF results.value # <<>> THEN Some(results.value[1]) ELSE None]

\* DepartmentModel.update
department_update(depts, emps, auto, dept_id, name, description, fault) ==
    LET stmt == update_department(depts, dept_id, name, description)
        rows_affected == execute_update(stmt, fault = 1)
    IN IF rows_affected.outcome = "raise"
       THEN model_result("raise", rows_affected.value, depts, emps, auto)
       ELSE model_result("return", rows_affected.value > 0, stmt.table, emps, auto)

\* DepartmentModel.delete
department_delete(depts, emps, auto, dept_id, fault) ==
    LET stmt == delete_department(depts, emps, dept_id)
        rows_affected == execute_update(stmt, fault = 1)
    IN IF rows_affected.outcome = "raise"
       THEN model_result("raise", rows_affected.value, depts, emps, auto)
       ELSE model_result("return", rows_affected.value > 0,
                         stmt.table, stmt.employees, auto)

\* COUNT(*) with no WHERE clause: every employee row.
count_all_employees(emps, dept_id) ==
    <<[count |-> Cardinality(emps)]>>

\* SELECT COUNT(*) as count FROM employees WHERE department_id = %s
count_employees(emps, dept_id) ==
    <<[count |-> Cardinality({e \in emps : e.department_id = Some(dept_id)})]>>

\* DepartmentModel.has_employees
has_employees(emps, dept_id, fault) ==
    LET results == execute_query(count_employees(emps, dept_id), fault = 1)
    IN IF results.outcome = "raise"
       THEN [outcome |-> "return", value |-> FALSE]
       ELSE IF results.value # <<>> /\ Len(results.value) > 0
       THEN [outcome |-> "return", value |-> results.value[1].count > 0]
       ELSE [outcome |-> "return", value |-> FALSE]

\* EmployeeModel.create
employee_create(depts, emps, auto, f, fault) ==
    LET stmt == insert_employee(depts, emps, auto, f)
        done == execute_update(stmt, fault = 1)
    IN IF done.outcome = "raise"
       THEN model_result("raise", done.value, depts, emps, auto)
       ELSE IF fault = 2
       THEN model_result("raise", ErrLostConnection, depts, stmt.table, stmt.auto)
       ELSE model_result("return", get_last_insert_id, depts, stmt.table, stmt.auto)

\* EmployeeModel.get_all
employee_get_all(depts, emps, fault) ==
    execute_query(order_by_last_first(joined(depts, emps)), fault = 1)

\* EmployeeModel.get_by_id
employee_get_by_id(depts, emps, emp_id, fault) ==
    LET results == execute_query(
                       order_by_last_first({e \in joined(depts, emps) : e.id = emp_id}),
                       fault = 1)
    IN IF results.outcome = "raise" THEN results
       ELSE [outcome |-> "return",
             value |-> IF results.value # <<>> THEN Some(results.value[1]) ELSE None]

\* EmployeeModel.search
employee_search(depts, emps, search_term, fault) ==
    LET search_pattern == <<"%">> \o search_term \o <<"%">>
    IN execute_query(
           order_by_last_first(
               {e \in joined(depts, emps) :
                   \/ like(e.first_name, search_pattern)
                   \/ like(e.last_name, search_pattern)
                   \/ like(e.email, search_pattern)
                   \/ like(e.position, search_pattern)}),
           fault = 1)

\* EmployeeModel.update
employee_update(depts, emps, auto, emp_id, f, fault) ==
    LET stmt == update_employee(depts, emps, emp_id, f)
        rows_affected == execute_update(stmt, fault = 1)
    IN IF rows_affected.outcome = "raise"
       THEN model_result("raise", rows_affected.value, depts, emps, auto)
       ELSE model_result("return", rows_affected.value > 0, depts, stmt.table, auto)

\* EmployeeModel.delete
employee_delete(depts, emps, auto, emp_id, fault) ==
    LET stmt == delete_employee(emps, emp_id)
        rows_affected == execute_update(stmt, fault = 1)
    IN IF rows_affected.outcome = "raise"
       THEN model_result("raise", rows_affected.value, depts, emps, auto)
       ELSE model_result("return", rows_affected.value > 0, depts, stmt.table, auto)

\* The record get_statistics returns when it has no row or the query failed.
zero_statistics ==
    [total_employees |-> 0, avg_salary |-> Some(<<0, 0>>), min_salary |-> Some(0),
     max_salary |-> Some(0), total_salary |-> Some(0)]

\* get_statistics without its except clause: the exception leaves it.
statistics_reraise(error) ==
    [outcome |-> "raise", value |-> error]

\* What the except clause of get_statistics does with the exception.
statistics_on_error(error) ==
    [outcome |-> "return", value |-> zero_statistics]

\* EmployeeModel.get_statistics
get_statistics(emps, fault) ==
    LET results == execute_query(select_statistics(emps), fault = 1)
    IN IF results.outcome = "raise"
       THEN statistics_on_error(results.value)
       ELSE IF results.value # <<>> /\ Len(results.value) > 0
       THEN [outcome |-> "return", value |-> results.value[1]]
       ELSE [outcome |-> "return", value |-> zero_statistics]

(***************************************************************************)
(* ReportGenerator.generate_report_text.  The report is given by its       *)
(* sections: the summary figures and the department-wise employee count,   *)
(* a sequence of <<label, count>> lines.                                   *)
(***************************************************************************)
ErrTypeError == "TypeError: '<' not supported between instances of 'NoneType' and 'str'"

\* Python compares str by code point.
CodePoints ==
    <<"\t", "\n", " ", "%", "&", ",", ".", "0", "1", "2", "3", "4", "5", "6", "7",
      "8", "9", "@">> \o UpperCase \o <<"_">> \o LowerCase

code_point(c) == CHOOSE i \in 1..Len(CodePoints) : CodePoints[i] = c

RECURSIVE py_str_less(_, _)
py_str_less(a, b) ==
    IF b = <<>> THEN FALSE
    ELSE IF a = <<>> THEN TRUE
    ELSE IF Head(a) = Head(b) THEN py_str_less(Tail(a), Tail(b))
    ELSE code_point(Head(a)) < code_point(Head(b))

\* dept_employee_count[dept_name] after the loop over employees; a key is
\* None or Some(name).
dept_employee_count(rows) ==
    [k \in {rows[i].department_name : i \in 1..Len(rows)} |->
        Cardinality({i \in 1..Len(rows) : rows[i].department_name = k})]

\* sorted(...) of (name, count) pairs whose names are all str
RECURSIVE sorted_items(_, _)
sorted_items(counts, keys) ==
    IF keys = {} THEN <<>>
    ELSE LET k == CHOOSE x \in keys : \A y \in keys \ {x} : py_str_less(x[1], y[1])
         IN <<k>> \o sorted_items(counts, keys \ {k})

S_None == <<"N", "o", "n", "e">>
S_NoDepartment == <<"N", "o", " ", "D", "e", "p", "a", "r", "t", "m", "e", "n", "t">>

\* emp.get('department_name', 'No Department'): the key is in every row of
\* get_all, so the value comes back as it is, None included.
dept_name_get(row) == row.department_name

\* f"{dept_name}: {count} employee(s)" of one pair: None prints as None.
count_line(counts, k) ==
    <<IF k = None THEN S_None ELSE k[1], counts[k]>>

\* The DEPARTMENT-WISE EMPLOYEE COUNT section: sorted() compares the keys
\* when there are two or more, and None does not compare with a str.
department_wise_count(rows) ==
    LET named == [i \in 1..Len(rows) |->
                     [department_name |-> dept_name_get(rows[i])]]
        counts == dept_employee_count(named)
        keys == DOMAIN counts
    IN IF None \in keys /\ Cardinality(keys) > 1
       THEN [outcome |-> "raise", value |-> ErrTypeError]
       ELSE IF keys = {None}
       THEN [outcome |-> "return", value |-> <<count_line(counts, None)>>]
       ELSE LET order == sorted_items(counts, keys)
            IN [outcome |-> "return",
                value |-> [i \in 1..Len(order) |-> count_line(counts, order[i])]]

ErrFormatNone == "TypeError: unsupported format string passed to NoneType.__format__"

S_NA == <<"N", "/", "A">>

\* f"{value:<width}" of a str: padded with spaces on the right, never cut.
ljust(s, width) ==
    IF Len(s) >= width THEN s
    ELSE s \o [i \in 1..(width - Len(s)) |-> " "]

\* The body of the try in the loop of the EMPLOYEE LISTING section, for one
\* row of get_all.  dept is emp.get('department_name', 'N/A'): the key is in
\* the row, so a row without department gives None, and f"{dept:<15}" of
\* None raises TypeError.  The number columns are kept as numbers: emp_id,
\* and salary as Some(amount), None where the row shows "N/A".
employee_listing_row(emp) ==
    LET name == strip(emp.first_name \o <<" ">> \o emp.last_name)
        email == emp.email
        position == IF emp.position = <<>> THEN S_NA ELSE emp.position
        salary_val == emp.salary
        salary == IF salary_val # 0 THEN Some(salary_val) ELSE None
        dept == emp.department_name
        emp_id == emp.id
    IN IF dept = None
       THEN [outcome |-> "raise", value |-> ErrFormatNone]
       ELSE [outcome |-> "return",
             value |-> [emp_id |-> emp_id, name |-> ljust(name, 25),
                        email |-> ljust(email, 25),
                        position |-> ljust(position, 15),
                        salary |-> salary,
                        department |-> ljust(dept[1], 15)]]

\* for emp in employees: try: report += row; except Exception: continue
RECURSIVE employee_listing(_)
employee_listing(rows) ==
    IF rows = <<>> THEN <<>>
    ELSE LET row == employee_listing_row(Head(rows))
         IN IF row.outcome = "raise" THEN employee_listing(Tail(rows))
            ELSE <<row.value>> \o employee_listing(Tail(rows))

\* generate_report_text; fault: 1 the query of get_statistics fails, 2 that
\* of EmployeeModel.get_all, 3 that of DepartmentModel.get_all.
generate_report_text(depts, emps, fault) ==
    LET stats == get_statistics(emps, IF fault = 1 THEN 1 ELSE 0)
        all_employees == employee_get_all(depts, emps, IF fault = 2 THEN 1 ELSE 0)
        all_departments == department_get_all(depts, IF fault = 3 THEN 1 ELSE 0)
    IN IF all_employees.outcome = "raise" THEN all_employees
       ELSE IF all_departments.outcome = "raise" THEN all_departments
       ELSE LET section == department_wise_count(all_employees.value)
            IN IF section.outcome = "raise" THEN section
               ELSE [outcome |-> "return",
                     value |-> [total_employees |-> stats.value.total_employees,
                                total_departments |-> Len(all_departments.value),
                                department_wise_count |-> section.value,
                                employee_listing |->
                                    employee_listing(all_employees.value)]]

(***************************************************************************)
(* The validators (utils/validators.py).  A result is the tuple the        *)
(* function returns.                                                       *)
(***************************************************************************)
Digits == <<"0", "1", "2", "3", "4", "5", "6", "7", "8", "9">>

is_digit(c) == \E i \in 1..Len(Digits) : Digits[i] = c

digit_value(c) == (CHOOSE i \in 1..Len(Digits) : Digits[i] = c) - 1

\* int() of a run of digits
RECURSIVE int_of(_)
int_of(s) ==
    IF s = <<>> THEN 0
    ELSE int_of(SubSeq(s, 1, Len(s) - 1)) * 10 + digit_value(s[Len(s)])

MsgDateFormat == "Date must be in YYYY-MM-DD format"
MsgInvalidDate == "Invalid date"

\* re.match(r'^\d{4}-\d{2}-\d{2}$', date_str); $ matches at the end and
\* before a newline that ends the string.
date_pattern(s) ==
    LET t == IF Len(s) = 11 /\ s[11] = "\n" THEN SubSeq(s, 1, 10) ELSE s
    IN /\ Len(t) = 10
       /\ t[5] = "-"
       /\ t[8] = "-"
       /\ \A i \in {1, 2, 3, 4, 6, 7, 9, 10} : is_digit(t[i])

\* A leap year every fourth year.
is_leap_julian(year) == year % 4 = 0

\* The leap years of datetime.
is_leap(year) == year % 4 = 0 /\ (year % 100 # 0 \/ year % 400 = 0)

days_in_month(year, month) ==
    IF month = 2 /\ is_leap(year) THEN 29
    ELSE <<31, 28, 31, 30, 31, 30, 31, 31, 30, 31, 30, 31>>[month]

\* datetime.strptime(date_str, '%Y-%m-%d') of a string that date_pattern
\* matched: TRUE when it returns a date, FALSE when it raises ValueError
\* (data left unconverted, month or day 00, a day the month does not have,
\* a year before datetime.MINYEAR).
strptime(s) ==
    /\ Len(s) = 10
    /\ LET year == int_of(SubSeq(s, 1, 4))
           month == int_of(SubSeq(s, 6, 7))
           day == int_of(SubSeq(s, 9, 10))
       IN /\ year >= 1
          /\ month \in 1..12
          /\ day >= 1
          /\ day <= days_in_month(year, month)

\* validate_date
validate_date(date_str) ==
    IF date_str = <<>> \/ strip(date_str) = <<>> THEN <<TRUE, None>>
    ELSE IF ~ date_pattern(date_str) THEN <<FALSE, MsgDateFormat>>
    ELSE IF strptime(date_str) THEN <<TRUE, None>>
    ELSE <<FALSE, MsgInvalidDate>>

MsgSalaryNegative == "Salary cannot be negative"
MsgSalaryNotNumber == "Salary must be a valid number"
MsgInvalidEmail == "Invalid email format"
MsgInvalidPhone == "Invalid phone number format"

\* validate_required: (is_valid, error_message)
validate_required(value, field_name) ==
    IF value = <<>> \/ strip(value) = <<>>
    THEN <<FALSE, <<field_name, " is required">>>>
    ELSE <<TRUE, None>>

Letters == {UpperCase[i] : i \in 1..Len(UpperCase)} \cup
           {LowerCase[i] : i \in 1..Len(LowerCase)}
Alphanumerics == Letters \cup {Digits[i] : i \in 1..Len(Digits)}

\* validate_email:
\* re.match(r'^[a-zA-Z0-9._%+-]+@[a-zA-Z0-9.-]+\.[a-zA-Z]{2,}$', email)
validate_email(email) ==
    LET t == IF email # <<>> /\ email[Len(email)] = "\n"
             THEN SubSeq(email, 1, Len(email) - 1) ELSE email
        n == Len(t)
    IN \E a \in 2..n : \E k \in (a + 2)..(n - 2) :
          /\ t[a] = "@"
          /\ \A i \in 1..(a - 1) : t[i] \in Alphanumerics \cup {".", "_", "%", "+", "-"}
          /\ \A i \in (a + 1)..(k - 1) : t[i] \in Alphanumerics \cup {".", "-"}
          /\ t[k] = "."
          /\ \A i \in (k + 1)..n : t[i] \in Letters

\* validate_phone; \s is taken over the whitespace of the model's strings.
validate_phone(phone) ==
    IF phone = <<>> THEN TRUE
    ELSE IF \E i \in 1..Len(phone) :
               phone[i] \notin {Digits[j] : j \in 1..Len(Digits)} \cup Whitespace
                                 \cup {"-", "(", ")"}
    THEN FALSE
    ELSE Cardinality({i \in 1..Len(phone) : phone[i] \notin {" ", "-", "(", ")"}}) >= 10

\* float(salary_str) of a decimal integer with an optional sign, spaces
\* around it allowed; every other string of the model is no number
\* (ValueError).  A value is in whole currency units; -0.0 is 0.
float(salary_str) ==
    LET t == strip(salary_str)
        signed == t # <<>> /\ t[1] \in {"+", "-"}
        digits == IF signed THEN Tail(t) ELSE t
    IN IF digits = <<>> \/ \E i \in 1..Len(digits) : ~ is_digit(digits[i])
       THEN [outcome |-> "raise", value |-> "ValueError"]
       ELSE [outcome |-> "return",
             value |-> IF signed /\ t[1] = "-" THEN 0 - int_of(digits)
                       ELSE int_of(digits)]

\* validate_salary: (is_valid, error_message, salary_value)
validate_salary(salary_str) ==
    IF salary_str = <<>> \/ strip(salary_str) = <<>> THEN <<TRUE, None, Some(0)>>
    ELSE LET salary == float(salary_str)
         IN IF salary.outcome = "raise" THEN <<FALSE, MsgSalaryNotNumber, None>>
            ELSE IF salary.value < 0 THEN <<FALSE, MsgSalaryNegative, None>>
            ELSE <<TRUE, None, Some(salary.value)>>

(***************************************************************************)
(* Inputs of the calls.                                                    *)
(***************************************************************************)
S_admin == <<"a", "d", "m", "i", "n">>
S_admin123 == <<"a", "d", "m", "i", "n", "1", "2", "3">>
S_bob == <<"b", "o", "b">>
S_Bob == <<"B", "o", "b">>
S_bob_padded == <<" ">> \o S_bob \o <<" ">>
S_amy == <<"a", "m", "y">>
S_blank == <<" ", " ">>
S_long == [i \in 1..(VarcharLen + 1) |-> "x"]
S_hunter22 == <<"h", "u", "n", "t", "e", "r", "2", "2">>
S_secret7 == <<"s", "e", "c", "r", "e", "t", "7">>

Usernames == {S_admin, S_bob, S_Bob, S_bob_padded, S_amy, S_blank, <<>>, S_long}
Passwords == {S_admin123, S_hunter22, S_secret7, <<>>}

(***************************************************************************)
(* DatabaseManager.initialize_database.  CREATE TABLE IF NOT EXISTS makes  *)
(* an absent table an empty one and leaves an existing one alone, so a     *)
(* server without tables is the three empty tables.                        *)
(***************************************************************************)
\* sample_departments: (name, description)
sample_departments ==
    <<[name |-> <<"H", "u", "m", "a", "n", " ", "R", "e", "s", "o", "u", "r",
         "c", "e", "s">>,
     description |-> <<"M", "a", "n", "a", "g", "e", "s", " ", "e", "m", "p",
         "l", "o", "y", "e", "e", " ", "r", "e", "l", "a", "t", "i", "o", "n",
         "s", ",", " ", "r", "e", "c", "r", "u", "i", "t", "m", "e", "n", "t",
         ",", " ", "a", "n", "d", " ", "b", "e", "n", "e", "f", "i", "t",
         "s">>],
     [name |-> <<"I", "n", "f", "o", "r", "m", "a", "t", "i", "o", "n", " ",
         "T", "e", "c", "h", "n", "o", "l", "o", "g", "y">>,
     description |-> <<"H", "a", "n", "d", "l", "e", "s", " ", "s", "o", "f",
         "t", "w", "a", "r", "e", " ", "d", "e", "v", "e", "l", "o", "p", "m",
         "e", "n", "t", ",", " ", "i", "n", "f", "r", "a", "s", "t", "r", "u",
         "c", "t", "u", "r", "e", ",", " ", "a", "n", "d", " ", "t", "e", "c",
         "h", "n", "i", "c", "a", "l", " ", "s", "u", "p", "p", "o", "r",
         "t">>],
     [name |-> <<"S", "a", "l", "e", "s">>,
     description |-> <<"R", "e", "s", "p", "o", "n", "s", "i", "b", "l", "e",
         " ", "f", "o", "r", " ", "c", "u", "s", "t", "o", "m", "e", "r", " ",
         "a", "c", "q", "u", "i", "s", "i", "t", "i", "o", "n", " ", "a", "n",
         "d", " ", "r", "e", "v", "e", "n", "u", "e", " ", "g", "e", "n", "e",
         "r", "a", "t", "i", "o", "n">>],
     [name |-> <<"M", "a", "r", "k", "e", "t", "i", "n", "g">>,
     description |-> <<"M", "a", "n", "a", "g", "e", "s", " ", "b", "r", "a",
         "n", "d", " ", "p", "r", "o", "m", "o", "t", "i", "o", "n", ",", " ",
         "a", "d", "v", "e", "r", "t", "i", "s", "i", "n", "g", ",", " ", "a",
         "n", "d", " ", "m", "a", "r", "k", "e", "t", " ", "r", "e", "s", "e",
         "a", "r", "c", "h">>],
     [name |-> <<"F", "i", "n", "a", "n", "c", "e">>,
     description |-> <<"H", "a", "n", "d", "l", "e", "s", " ", "a", "c", "c",
         "o", "u", "n", "t", "i", "n", "g", ",", " ", "b", "u", "d", "g", "e",
         "t", "i", "n", "g", ",", " ", "a", "n", "d", " ", "f", "i", "n", "a",
         "n", "c", "i", "a", "l", " ", "p", "l", "a", "n", "n", "i", "n",
         "g">>],
     [name |-> <<"O", "p", "e", "r", "a", "t", "i", "o", "n", "s">>,
     description |-> <<"M", "a", "n", "a", "g", "e", "s", " ", "d", "a", "i",
         "l", "y", " ", "o", "p", "e", "r", "a", "t", "i", "o", "n", "s", " ",
         "a", "n", "d", " ", "s", "e", "r", "v", "i", "c", "e", "s">>],
     [name |-> <<"Q", "u", "a", "l", "i", "t", "y", " ", "A", "s", "s", "u",
         "r", "a", "n", "c", "e">>,
     description |-> <<"E", "n", "s", "u", "r", "e", "s", " ", "q", "u", "a",
         "l", "i", "t", "y", " ", "s", "t", "a", "n", "d", "a", "r", "d", "s",
         " ", "a", "n", "d", " ", "c", "o", "m", "p", "l", "i", "a", "n", "c",
         "e", " ", "m", "o", "n", "i", "t", "o", "r", "i", "n", "g">>],
     [name |-> <<"R", "e", "s", "e", "a", "r", "c", "h", " ", "&", " ", "D",
         "e", "v", "e", "l", "o", "p", "m", "e", "n", "t">>,
     description |-> <<"P", "r", "o", "d", "u", "c", "t", " ", "d", "e", "v",
         "e", "l", "o", "p", "m", "e", "n", "t", " ", "a", "n", "d", " ", "i",
         "n", "n", "o", "v", "a", "t", "i", "o", "n">>],
     [name |-> <<"C", "u", "s", "t", "o", "m", "e", "r", " ", "S", "e", "r",
         "v", "i", "c", "e">>,
     description |-> <<"C", "u", "s", "t", "o", "m", "e", "r", " ", "s", "u",
         "p", "p", "o", "r", "t", " ", "a", "n", "d", " ", "s", "e", "r", "v",
         "i", "c", "e", " ", "m", "a", "n", "a", "g", "e", "m", "e", "n",
         "t">>],
     [name |-> <<"E", "x", "e", "c", "u", "t", "i", "v", "e", " ", "M", "a",
         "n", "a", "g", "e", "m", "e", "n", "t">>,
     description |-> <<"E", "x", "e", "c", "u", "t", "i", "v", "e", " ", "l",
         "e", "a", "d", "e", "r", "s", "h", "i", "p", " ", "a", "n", "d", " ",
         "s", "t", "r", "a", "t", "e", "g", "i", "c", " ", "p", "l", "a", "n",
         "n", "i", "n", "g">>]>>

\* dept_ids[k] if len(dept_ids) > k else None
dept_id_at(dept_ids, k) ==
    IF Len(dept_ids) > k THEN Some(dept_ids[k + 1]) ELSE None

\* sample_employees: (first_name, last_name, email, phone, position, salary,
\* department_id, hire_date), without phone and hire_date.
sample_employees(dept_ids) ==
    <<[first_name |-> <<"A", "h", "m", "e", "d">>,
     last_name |-> <<"M", "o", "h", "a", "m", "m", "e", "d">>,
     email |-> <<"a", "h", "m", "e", "d", ".", "m", "o", "h", "a", "m", "m",
         "e", "d", "@", "c", "o", "m", "p", "a", "n", "y", ".", "c", "o",
         "m">>,
     position |-> <<"H", "R", " ", "M", "a", "n", "a", "g", "e", "r">>,
     salary |-> 85000, department_id |-> dept_id_at(dept_ids, 0)],
     [first_name |-> <<"F", "a", "t", "i", "m", "a">>,
     last_name |-> <<"A", "l", "i">>,
     email |-> <<"f", "a", "t", "i", "m", "a", ".", "a", "l", "i", "@", "c",
         "o", "m", "p", "a", "n", "y", ".", "c", "o", "m">>,
     position |-> <<"S", "o", "f", "t", "w", "a", "r", "e", " ", "E", "n", "g",
         "i", "n", "e", "e", "r">>,
     salary |-> 90000, department_id |-> dept_id_at(dept_ids, 1)],
     [first_name |-> <<"K", "h", "a", "l", "i", "d">>,
     last_name |-> <<"H", "a", "s", "s", "a", "n">>,
     email |-> <<"k", "h", "a", "l", "i", "d", ".", "h", "a", "s", "s", "a",
         "n", "@", "c", "o", "m", "p", "a", "n", "y", ".", "c", "o", "m">>,
     position |-> <<"S", "a", "l", "e", "s", " ", "R", "e", "p", "r", "e", "s",
         "e", "n", "t", "a", "t", "i", "v", "e">>,
     salary |-> 65000, department_id |-> dept_id_at(dept_ids, 2)],
     [first_name |-> <<"M", "a", "r", "i", "a", "m">>,
     last_name |-> <<"I", "b", "r", "a", "h", "i", "m">>,
     email |-> <<"m", "a", "r", "i", "a", "m", ".", "i", "b", "r", "a", "h",
         "i", "m", "@", "c", "o", "m", "p", "a", "n", "y", ".", "c", "o",
         "m">>,
     position |-> <<"M", "a", "r", "k", "e", "t", "i", "n", "g", " ", "S", "p",
         "e", "c", "i", "a", "l", "i", "s", "t">>,
     salary |-> 70000, department_id |-> dept_id_at(dept_ids, 3)],
     [first_name |-> <<"Y", "o", "u", "s", "s", "e", "f">>,
     last_name |-> <<"A", "b", "d", "u", "l", "l", "a", "h">>,
     email |-> <<"y", "o", "u", "s", "s", "e", "f", ".", "a", "b", "d", "u",
         "l", "l", "a", "h", "@", "c", "o", "m", "p", "a", "n", "y", ".", "c",
         "o", "m">>,
     position |-> <<"F", "i", "n", "a", "n", "c", "i", "a", "l", " ", "A", "n",
         "a", "l", "y", "s", "t">>,
     salary |-> 75000, department_id |-> dept_id_at(dept_ids, 4)],
     [first_name |-> <<"S", "a", "r", "a">>,
     last_name |-> <<"A", "h", "m", "e", "d">>,
     email |-> <<"s", "a", "r", "a", ".", "a", "h", "m", "e", "d", "@", "c",
         "o", "m", "p", "a", "n", "y", ".", "c", "o", "m">>,
     position |-> <<"S", "e", "n", "i", "o", "r", " ", "D", "e", "v", "e", "l",
         "o", "p", "e", "r">>,
     salary |-> 100000, department_id |-> dept_id_at(dept_ids, 1)],
     [first_name |-> <<"O", "m", "a", "r">>,
     last_name |-> <<"M", "a", "h", "m", "o", "u", "d">>,
     email |-> <<"o", "m", "a", "r", ".", "m", "a", "h", "m", "o", "u", "d",
         "@", "c", "o", "m", "p", "a", "n", "y", ".", "c", "o", "m">>,
     position |-> <<"S", "a", "l", "e", "s", " ", "M", "a", "n", "a", "g", "e",
         "r">>,
     salary |-> 85000, department_id |-> dept_id_at(dept_ids, 2)],
     [first_name |-> <<"N", "o", "r", "a">>,
     last_name |-> <<"S", "a", "e", "e", "d">>,
     email |-> <<"n", "o", "r", "a", ".", "s", "a", "e", "e", "d", "@", "c",
         "o", "m", "p", "a", "n", "y", ".", "c", "o", "m">>,
     position |-> <<"H", "R", " ", "C", "o", "o", "r", "d", "i", "n", "a", "t",
         "o", "r">>,
     salary |-> 60000, department_id |-> dept_id_at(dept_ids, 0)],
     [first_name |-> <<"A", "b", "d", "u", "l", "r", "a", "h", "m", "a", "n">>,
     last_name |-> <<"A", "l", "i">>,
     email |-> <<"a", "b", "d", "u", "l", "r", "a", "h", "m", "a", "n", ".",
         "a", "l", "i", "@", "c", "o", "m", "p", "a", "n", "y", ".", "c", "o",
         "m">>,
     position |-> <<"O", "p", "e", "r", "a", "t", "i", "o", "n", "s", " ", "M",
         "a", "n", "a", "g", "e", "r">>,
     salary |-> 95000, department_id |-> dept_id_at(dept_ids, 5)],
     [first_name |-> <<"L", "a", "y", "l", "a">>,
     last_name |-> <<"M", "o", "h", "a", "m", "m", "e", "d">>,
     email |-> <<"l", "a", "y", "l", "a", ".", "m", "o", "h", "a", "m", "m",
         "e", "d", "@", "c", "o", "m", "p", "a", "n", "y", ".", "c", "o",
         "m">>,
     position |-> <<"Q", "u", "a", "l", "i", "t", "y", " ", "S", "p", "e", "c",
         "i", "a", "l", "i", "s", "t">>,
     salary |-> 72000, department_id |-> dept_id_at(dept_ids, 6)],
     [first_name |-> <<"T", "a", "r", "i", "q">>,
     last_name |-> <<"H", "u", "s", "s", "e", "i", "n">>,
     email |-> <<"t", "a", "r", "i", "q", ".", "h", "u", "s", "s", "e", "i",
         "n", "@", "c", "o", "m", "p", "a", "n", "y", ".", "c", "o", "m">>,
     position |-> <<"D", "e", "v", "e", "l", "o", "p", "m", "e", "n", "t", " ",
         "E", "n", "g", "i", "n", "e", "e", "r">>,
     salary |-> 88000, department_id |-> dept_id_at(dept_ids, 7)],
     [first_name |-> <<"Z", "e", "i", "n", "a", "b">>,
     last_name |-> <<"O", "m", "a", "r">>,
     email |-> <<"z", "e", "i", "n", "a", "b", ".", "o", "m", "a", "r", "@",
         "c", "o", "m", "p", "a", "n", "y", ".", "c", "o", "m">>,
     position |-> <<"C", "u", "s", "t", "o", "m", "e", "r", " ", "S", "e", "r",
         "v", "i", "c", "e", " ", "S", "p", "e", "c", "i", "a", "l", "i", "s",
         "t">>,
     salary |-> 58000, department_id |-> dept_id_at(dept_ids, 8)],
     [first_name |-> <<"M", "u", "s", "t", "a", "f", "a">>,
     last_name |-> <<"A", "h", "m", "e", "d">>,
     email |-> <<"m", "u", "s", "t", "a", "f", "a", ".", "a", "h", "m", "e",
         "d", "@", "c", "o", "m", "p", "a", "n", "y", ".", "c", "o", "m">>,
     position |-> <<"D", "e", "v", "e", "l", "o", "p", "m", "e", "n", "t", " ",
         "M", "a", "n", "a", "g", "e", "r">>,
     salary |-> 110000, department_id |-> dept_id_at(dept_ids, 7)],
     [first_name |-> <<"H", "i", "n", "d">>,
     last_name |-> <<"K", "h", "a", "l", "i", "d">>,
     email |-> <<"h", "i", "n", "d", ".", "k", "h", "a", "l", "i", "d", "@",
         "c", "o", "m", "p", "a", "n", "y", ".", "c", "o", "m">>,
     position |-> <<"M", "a", "r", "k", "e", "t", "i", "n", "g", " ", "M", "a",
         "n", "a", "g", "e", "r">>,
     salary |-> 92000, department_id |-> dept_id_at(dept_ids, 3)],
     [first_name |-> <<"S", "a", "l", "e", "m">>,
     last_name |-> <<"A", "b", "d", "u", "l", "l", "a", "h">>,
     email |-> <<"s", "a", "l", "e", "m", ".", "a", "b", "d", "u", "l", "l",
         "a", "h", "@", "c", "o", "m", "p", "a", "n", "y", ".", "c", "o",
         "m">>,
     position |-> <<"A", "c", "c", "o", "u", "n", "t", "a", "n", "t">>,
     salary |-> 68000, department_id |-> dept_id_at(dept_ids, 4)],
     [first_name |-> <<"N", "a", "s", "s", "e", "r">>,
     last_name |-> <<"A", "l", "i">>,
     email |-> <<"n", "a", "s", "s", "e", "r", ".", "a", "l", "i", "@", "c",
         "o", "m", "p", "a", "n", "y", ".", "c", "o", "m">>,
     position |-> <<"S", "e", "n", "i", "o", "r", " ", "S", "a", "l", "e", "s",
         " ", "R", "e", "p", "r", "e", "s", "e", "n", "t", "a", "t", "i", "v",
         "e">>,
     salary |-> 72000, department_id |-> dept_id_at(dept_ids, 2)],
     [first_name |-> <<"R", "e", "e", "m">>,
     last_name |-> <<"H", "a", "s", "s", "a", "n">>,
     email |-> <<"r", "e", "e", "m", ".", "h", "a", "s", "s", "a", "n", "@",
         "c", "o", "m", "p", "a", "n", "y", ".", "c", "o", "m">>,
     position |-> <<"H", "R", " ", "S", "p", "e", "c", "i", "a", "l", "i", "s",
         "t">>,
     salary |-> 64000, department_id |-> dept_id_at(dept_ids, 0)],
     [first_name |-> <<"W", "a", "l", "e", "e", "d">>,
     last_name |-> <<"I", "b", "r", "a", "h", "i", "m">>,
     email |-> <<"w", "a", "l", "e", "e", "d", ".", "i", "b", "r", "a", "h",
         "i", "m", "@", "c", "o", "m", "p", "a", "n", "y", ".", "c", "o",
         "m">>,
     position |-> <<"Q", "u", "a", "l", "i", "t", "y", " ", "M", "a", "n", "a",
         "g", "e", "r">>,
     salary |-> 89000, department_id |-> dept_id_at(dept_ids, 6)],
     [first_name |-> <<"D", "a", "n", "a">>,
     last_name |-> <<"M", "a", "h", "m", "o", "u", "d">>,
     email |-> <<"d", "a", "n", "a", ".", "m", "a", "h", "m", "o", "u", "d",
         "@", "c", "o", "m", "p", "a", "n", "y", ".", "c", "o", "m">>,
     position |-> <<"S", "e", "r", "v", "i", "c", "e", " ", "M", "a", "n", "a",
         "g", "e", "r">>,
     salary |-> 78000, department_id |-> dept_id_at(dept_ids, 8)],
     [first_name |-> <<"B", "a", "d", "r">>,
     last_name |-> <<"S", "a", "e", "e", "d">>,
     email |-> <<"b", "a", "d", "r", ".", "s", "a", "e", "e", "d", "@", "c",
         "o", "m", "p", "a", "n", "y", ".", "c", "o", "m">>,
     position |-> <<"S", "o", "f", "t", "w", "a", "r", "e", " ", "E", "n", "g",
         "i", "n", "e", "e", "r">>,
     salary |-> 82000, department_id |-> dept_id_at(dept_ids, 1)],
     [first_name |-> <<"L", "i", "n", "a">>,
     last_name |-> <<"H", "u", "s", "s", "e", "i", "n">>,
     email |-> <<"l", "i", "n", "a", ".", "h", "u", "s", "s", "e", "i", "n",
         "@", "c", "o", "m", "p", "a", "n", "y", ".", "c", "o", "m">>,
     position |-> <<"S", "e", "n", "i", "o", "r", " ", "F", "i", "n", "a", "n",
         "c", "i", "a", "l", " ", "A", "n", "a", "l", "y", "s", "t">>,
     salary |-> 80000, department_id |-> dept_id_at(dept_ids, 4)],
     [first_name |-> <<"A", "b", "d", "u", "l", "l", "a", "h">>,
     last_name |-> <<"O", "m", "a", "r">>,
     email |-> <<"a", "b", "d", "u", "l", "l", "a", "h", ".", "o", "m", "a",
         "r", "@", "c", "o", "m", "p", "a", "n", "y", ".", "c", "o", "m">>,
     position |-> <<"E", "x", "e", "c", "u", "t", "i", "v", "e", " ", "M", "a",
         "n", "a", "g", "e", "r">>,
     salary |-> 120000, department_id |-> dept_id_at(dept_ids, 9)],
     [first_name |-> <<"M", "o", "n", "a">>,
     last_name |-> <<"A", "h", "m", "e", "d">>,
     email |-> <<"m", "o", "n", "a", ".", "a", "h", "m", "e", "d", "@", "c",
         "o", "m", "p", "a", "n", "y", ".", "c", "o", "m">>,
     position |-> <<"D", "e", "v", "e", "l", "o", "p", "m", "e", "n", "t", " ",
         "S", "p", "e", "c", "i", "a", "l", "i", "s", "t">>,
     salary |-> 76000, department_id |-> dept_id_at(dept_ids, 7)],
     [first_name |-> <<"F", "a", "i", "s", "a", "l">>,
     last_name |-> <<"K", "h", "a", "l", "i", "d">>,
     email |-> <<"f", "a", "i", "s", "a", "l", ".", "k", "h", "a", "l", "i",
         "d", "@", "c", "o", "m", "p", "a", "n", "y", ".", "c", "o", "m">>,
     position |-> <<"R", "e", "g", "i", "o", "n", "a", "l", " ", "S", "a", "l",
         "e", "s", " ", "M", "a", "n", "a", "g", "e", "r">>,
     salary |-> 98000, department_id |-> dept_id_at(dept_ids, 2)]>>

\* The administrator's password stored as typed.
default_password_plain == S_admin123

\* default_password = hashlib.sha256("admin123".encode()).hexdigest()
default_password == sha256_hexdigest(S_admin123)

\* for dept_name, dept_desc in sample_departments: cursor.execute(INSERT ...)
RECURSIVE insert_sample_departments(_, _, _)
insert_sample_departments(depts, auto, rows) ==
    IF rows = <<>>
    THEN [error |-> "", table |-> depts, auto |-> auto]
    ELSE LET stmt == insert_department(depts, auto, Head(rows).name,
                                       Head(rows).description)
         IN IF stmt.error # ""
            THEN [error |-> stmt.error, table |-> depts, auto |-> auto]
            ELSE insert_sample_departments(stmt.table, stmt.auto, Tail(rows))

\* for emp in sample_employees: cursor.execute(INSERT ...); the loop ends at
\* the first statement that fails, the rows inserted before it stay in the
\* session's transaction.
RECURSIVE insert_sample_employees(_, _, _, _)
insert_sample_employees(depts, emps, auto, rows) ==
    IF rows = <<>>
    THEN [error |-> "", table |-> emps, auto |-> auto]
    ELSE LET stmt == insert_employee(depts, emps, auto, Head(rows))
         IN IF stmt.error # ""
            THEN [error |-> stmt.error, table |-> emps, auto |-> auto]
            ELSE insert_sample_employees(depts, stmt.table, stmt.auto, Tail(rows))

\* SELECT id FROM departments ORDER BY id
select_department_ids(depts) ==
    [i \in 1..Cardinality(depts) |-> by_id(depts)[i].id]

\* The INSERT of the administrator without the test of user_count.
seed_users_unguarded(usrs, auto) ==
    insert_user(usrs, auto, S_admin, default_password)

\* The part of initialize_database under `if user_count == 0`.
seed_users(usrs, auto) ==
    IF Cardinality(usrs) = 0
    THEN insert_user(usrs, auto, S_admin, default_password)
    ELSE [error |-> "", rowcount |-> 0, table |-> usrs, auto |-> auto]

\* DatabaseManager.initialize_database, from the first SELECT COUNT(*) on;
\* auto is the record of the three AUTO_INCREMENT counters.
initialize_database(usrs, depts, emps, auto) ==
    LET u == seed_users(usrs, auto.users)
        d == IF Cardinality(depts) = 0
             THEN insert_sample_departments(depts, auto.departments,
                                            sample_departments)
             ELSE [error |-> "", table |-> depts, auto |-> auto.departments]
        e == IF Cardinality(depts) = 0 /\ d.error = ""
             THEN insert_sample_employees(
                      d.table, emps, auto.employees,
                      sample_employees(select_department_ids(d.table)))
             ELSE [error |-> "", table |-> emps, auto |-> auto.employees]
        error == IF u.error # "" THEN u.error
                 ELSE IF d.error # "" THEN d.error ELSE e.error
    IN IF u.error # ""
       THEN [outcome |-> "raise", value |-> u.error,
             users |-> usrs, departments |-> depts, employees |-> emps,
             auto |-> auto]
       ELSE [outcome |-> IF error = "" THEN "return" ELSE "raise",
             value |-> IF error = "" THEN None ELSE error,
             users |-> u.table, departments |-> d.table, employees |-> e.table,
             auto |-> [users |-> u.auto, departments |-> d.auto,
                       employees |-> e.auto]]

(***************************************************************************)
(* The state.                                                              *)
(***************************************************************************)
snapshot ==
    [users |-> users, departments |-> departments, employees |-> employees,
     current_user |-> current_user]

call(op, args, fault, outcome, value) ==
    [op |-> op, args |-> args, fault |-> fault, outcome |-> outcome, value |-> value]

\* The database as initialize_database leaves a server without tables: the
\* seeded administrator; the sample departments and employees are taken as
\* deleted again, so that the record calls start from empty tables.  The
\* session initialize_database opened is the one every later call is given
\* by connect().
seeded_users == seed_users({}, 1).table

Init ==
    /\ users = seeded_users
    /\ departments = {}
    /\ employees = {}
    /\ auto_increment = [users |-> 2, departments |-> 1, employees |-> 1]
    /\ current_user = None
    /\ connection = Some(1)
    /\ server_connections = <<"open">>
    /\ last = call("init", <<>>, 0, "return", None)
    /\ app = no_app
    /\ pre = [users |-> seeded_users, departments |-> {}, employees |-> {},
              current_user |-> None]

(***************************************************************************)
(* The calls on AuthManager.                                               *)
(***************************************************************************)
Register(username, password, fault) ==
    LET r == register_user(users, auto_increment.users, current_user,
                           username, password, fault)
    IN /\ r.auto <= MaxUsers + 1
       /\ users' = r.users
       /\ auto_increment' = [auto_increment EXCEPT !.users = r.auto]
       /\ current_user' = r.current_user
       /\ last' = call("register_user",
                       [username |-> username, password |-> password],
                       fault, r.outcome, r.value)
       /\ pre' = snapshot
       /\ UNCHANGED <<departments, employees, gateway, app>>

\* after_register: the call before this one was register_user with the same
\* arguments and returned success.
Login(username, password, fault) ==
    LET r == login(users, auto_increment.users, current_user,
                   username, password, fault)
        after_register ==
            /\ last.op = "register_user"
            /\ last.args.username = username
            /\ last.args.password = password
            /\ last.outcome = "return"
            /\ last.value[1]
    IN /\ users' = r.users
       /\ current_user' = r.current_user
       /\ last' = call("login",
                       [username |-> username, password |-> password,
                        after_register |-> after_register],
                       fault, r.outcome, r.value)
       /\ pre' = snapshot
       /\ UNCHANGED <<departments, employees, auto_increment, gateway, app>>

Logout ==
    /\ current_user' = logout(current_user)
    /\ last' = call("logout", <<>>, 0, "return", None)
    /\ pre' = snapshot
    /\ UNCHANGED <<users, departments, employees, auto_increment, gateway, app>>

IsAuthenticated ==
    /\ last' = call("is_authenticated", <<>>, 0, "return",
                    is_authenticated(current_user))
    /\ pre' = snapshot
    /\ UNCHANGED <<users, departments, employees, auto_increment, current_user,
                   gateway, app>>
NextAuth ==
    \/ \E u \in Usernames, p \in Passwords, fault \in 0..2 : Register(u, p, fault)
    \/ \E u \in Usernames, p \in Passwords, fault \in 0..1 : Login(u, p, fault)
    \/ Logout
    \/ IsAuthenticated

SpecAuth == Init /\ [][NextAuth]_vars

(***************************************************************************)
(* The calls on DepartmentModel and EmployeeModel.                         *)
(***************************************************************************)
S_HR == <<"H", "R">>
S_IT == <<"I", "T">>
S_John == <<"J", "o", "h", "n">>
S_Smith == <<"S", "m", "i", "t", "h">>
S_john_x == <<"j", "o", "h", "n", "@", "x", ".", "c", "o", "m">>
S_Ann == <<"A", "n", "n">>
S_Lee == <<"L", "e", "e">>
S_asmith_x == <<"a", "s", "m", "i", "t", "h", "@", "x", ".", "c", "o", "m">>
S_Clerk == <<"C", "l", "e", "r", "k">>
S_Blacksmith == <<"B", "l", "a", "c", "k", "s", "m", "i", "t", "h">>
S_Cy == <<"C", "y">>
S_Doe == <<"D", "o", "e">>
S_cy_x == <<"c", "y", "@", "x", ".", "c", "o", "m">>
S_ann_x == <<"a", "n", "n", "@", "x", ".", "c", "o", "m">>
S_Cook == <<"C", "o", "o", "k">>

DepartmentNames == {S_HR, S_IT}
Descriptions == {<<>>}
DepartmentIds == 1..MaxDepartments
EmployeeIds == 1..MaxEmployees

person(first_name, last_name, email, position, salary) ==
    [first_name |-> first_name, last_name |-> last_name, email |-> email,
     position |-> position, salary |-> salary]

Persons ==
    {person(S_John, S_Smith, S_john_x, S_Clerk, 50000),
     person(S_Ann, S_Lee, S_asmith_x, S_Blacksmith, 70000)}

form(p, department_id) ==
    [first_name |-> p.first_name, last_name |-> p.last_name, email |-> p.email,
     position |-> p.position, salary |-> p.salary, department_id |-> department_id]

EmployeeForms ==
    {form(p, d) : p \in Persons, d \in {None} \cup {Some(i) : i \in DepartmentIds}}

record_step(op, args, fault, r) ==
    /\ departments' = r.departments
    /\ employees' = r.employees
    /\ auto_increment' = [auto_increment EXCEPT !.departments = r.auto.departments,
                                                !.employees = r.auto.employees]
    /\ last' = call(op, args, fault, r.outcome, r.value)
    /\ pre' = snapshot
    /\ UNCHANGED <<users, current_user, gateway, app>>

with_auto(r, table) ==
    [r EXCEPT !.auto = [auto_increment EXCEPT ![table] = r.auto]]

keep_auto(r) == [r EXCEPT !.auto = auto_increment]

DepartmentCreate(name, description, fault) ==
    LET r == department_create(departments, employees, auto_increment.departments,
                               name, description, fault)
    IN /\ r.auto <= MaxDepartments + 1
       /\ record_step("department_create",
                      [name |-> name, description |-> description],
                      fault, with_auto(r, "departments"))

DepartmentUpdate(dept_id, name, description, fault) ==
    record_step("department_update",
                [dept_id |-> dept_id, name |-> name, description |-> description],
                fault,
                keep_auto(department_update(departments, employees,
                                            auto_increment.departments,
                                            dept_id, name, description, fault)))

DepartmentDelete(dept_id, fault) ==
    record_step("department_delete", [dept_id |-> dept_id], fault,
                keep_auto(department_delete(departments, employees,
                                            auto_increment.departments, dept_id, fault)))

EmployeeCreate(f, fault) ==
    LET r == employee_create(departments, employees, auto_increment.employees, f, fault)
    IN /\ r.auto <= MaxEmployees + 1
       /\ record_step("employee_create", f, fault, with_auto(r, "employees"))

EmployeeUpdate(emp_id, f, fault) ==
    record_step("employee_update", [emp_id |-> emp_id, form |-> f], fault,
                keep_auto(employee_update(departments, employees,
                                          auto_increment.employees, emp_id, f, fault)))

EmployeeDelete(emp_id, fault) ==
    record_step("employee_delete", [emp_id |-> emp_id], fault,
                keep_auto(employee_delete(departments, employees,
                                          auto_increment.employees, emp_id, fault)))

query_step(op, args, fault, r) ==
    /\ last' = call(op, args, fault, r.outcome, r.value)
    /\ pre' = snapshot
    /\ UNCHANGED <<users, departments, employees, auto_increment, current_user,
                   gateway, app>>

GetStatistics(fault) ==
    query_step("get_statistics", <<>>, fault, get_statistics(employees, fault))

HasEmployees(dept_id, fault) ==
    query_step("has_employees", [dept_id |-> dept_id], fault,
               has_employees(employees, dept_id, fault))

NextRecords ==
    \/ \E n \in DepartmentNames, d \in Descriptions, fault \in 0..2 :
          DepartmentCreate(n, d, fault)
    \/ \E i \in DepartmentIds, n \in DepartmentNames, d \in Descriptions, fault \in 0..1 :
          DepartmentUpdate(i, n, d, fault)
    \/ \E i \in DepartmentIds, fault \in 0..1 : DepartmentDelete(i, fault)
    \/ \E f \in EmployeeForms, fault \in 0..2 : EmployeeCreate(f, fault)
    \/ \E i \in EmployeeIds, f \in EmployeeForms, fault \in 0..1 : EmployeeUpdate(i, f, fault)
    \/ \E i \in EmployeeIds, fault \in 0..1 : EmployeeDelete(i, fault)
    \/ \E fault \in 0..1 : GetStatistics(fault)
    \/ \E i \in DepartmentIds, fault \in 0..1 : HasEmployees(i, fault)

SpecRecords == Init /\ [][NextRecords]_vars

(***************************************************************************)
(* The reads over a stored population: the start states are the tables     *)
(* holding departments IT and HR and any of four employees; the calls are  *)
(* the searches and listings, and the update that renames a department.    *)
(***************************************************************************)
S_smith == <<"s", "m", "i", "t", "h">>
S_SMITH == <<"S", "M", "I", "T", "H">>
S_zz == <<"z", "z">>
S_Ops == <<"O", "p", "s">>

SearchTerms == {S_smith, S_SMITH, S_zz, <<"_">>, <<"%">>, <<>>}

StoredDepartments ==
    {[id |-> 1, name |-> S_IT, description |-> <<>>],
     [id |-> 2, name |-> S_HR, description |-> <<>>]}

StoredDepartmentIds == {d.id : d \in StoredDepartments}

NewDepartmentNames == {S_HR, S_IT, S_Ops}

StoredEmployees ==
    {employee_row(1, form(person(S_John, S_Smith, S_john_x, S_Clerk, 50000), Some(1))),
     employee_row(2, form(person(S_Ann, S_Lee, S_asmith_x, S_Clerk, 70000), None)),
     employee_row(3, form(person(S_Ann, S_Doe, S_ann_x, S_Blacksmith, 90000),
                          Some(1))),
     employee_row(4, form(person(S_Cy, S_Doe, S_cy_x, S_Cook, 70000), Some(2)))}

InitSearch ==
    /\ users = seeded_users
    /\ departments = StoredDepartments
    /\ employees \in SUBSET StoredEmployees
    /\ auto_increment = [users |-> 2, departments |-> 3, employees |-> 5]
    /\ current_user = None
    /\ connection = Some(1)
    /\ server_connections = <<"open">>
    /\ last = call("init", <<>>, 0, "return", None)
    /\ app = no_app
    /\ pre = [users |-> seeded_users, departments |-> StoredDepartments,
              employees |-> employees, current_user |-> None]

EmployeeSearch(search_term, fault) ==
    query_step("employee_search", [search_term |-> search_term], fault,
               employee_search(departments, employees, search_term, fault))

EmployeeGetAll(fault) ==
    query_step("employee_get_all", <<>>, fault,
               employee_get_all(departments, employees, fault))

DepartmentGetAll(fault) ==
    query_step("department_get_all", <<>>, fault,
               department_get_all(departments, fault))

GenerateReportText(fault) ==
    query_step("generate_report_text", <<>>, fault,
               generate_report_text(departments, employees, fault))

NextSearch ==
    \/ \E t \in SearchTerms, fault \in 0..1 : EmployeeSearch(t, fault)
    \/ \E fault \in 0..1 : EmployeeGetAll(fault)
    \/ \E fault \in 0..1 : DepartmentGetAll(fault)
    \/ \E fault \in 0..3 : GenerateReportText(fault)
    \/ \E fault \in 0..1 : GetStatistics(fault)
    \/ \E i \in StoredDepartmentIds, n \in NewDepartmentNames, fault \in 0..1 :
          DepartmentUpdate(i, n, <<>>, fault)

SpecSearch == InitSearch /\ [][NextSearch]_vars

(***************************************************************************)
(* The calls on one DatabaseManager, from its construction: no session is  *)
(* held yet; the database is the one an earlier run has initialised.       *)
(* fault: 0 none, 1 the server refuses a new session, 2 the statement      *)
(* loses the connection.                                                   *)
(***************************************************************************)
InitConnection ==
    /\ users = seeded_users
    /\ departments = {}
    /\ employees = {}
    /\ auto_increment = [users |-> 2, departments |-> 1, employees |-> 1]
    /\ current_user = None
    /\ connection = None
    /\ server_connections = <<>>
    /\ last = call("init", <<>>, 0, "return", None)
    /\ app = no_app
    /\ pre = [users |-> seeded_users, departments |-> {}, employees |-> {},
              current_user |-> None]

\* conn = self.connect() at the head of a gateway method, then the method's
\* result r; tables is what the method leaves in the database.
gateway_step(op, args, fault, r, tables) ==
    LET c == connect(connection, server_connections, fault = 1)
    IN /\ Len(c.server) <= MaxConnections
       /\ connection' = c.connection
       /\ server_connections' = c.server
       /\ last' = IF c.outcome = "raise"
                  THEN call(op, args, fault, "raise", c.value)
                  ELSE call(op, args, fault, r.outcome, r.value)
       /\ pre' = snapshot
       /\ users' = IF c.outcome = "raise" THEN users ELSE tables.users
       /\ departments' = IF c.outcome = "raise" THEN departments
                         ELSE tables.departments
       /\ employees' = IF c.outcome = "raise" THEN employees ELSE tables.employees
       /\ auto_increment' = IF c.outcome = "raise" THEN auto_increment
                            ELSE tables.auto
       /\ UNCHANGED <<current_user, app>>

tables_now ==
    [users |-> users, departments |-> departments, employees |-> employees,
     auto |-> auto_increment]

Connect(fault) ==
    gateway_step("connect", <<>>, fault,
                 connect(connection, server_connections, fault = 1), tables_now)

Close ==
    LET c == close(connection, server_connections)
    IN /\ connection' = c.connection
       /\ server_connections' = c.server
       /\ last' = call("close", <<>>, 0, "return", None)
       /\ pre' = snapshot
       /\ UNCHANGED <<users, departments, employees, auto_increment, current_user,
                       app>>

\* execute_query("SELECT * FROM departments ORDER BY name")
ExecuteQuery(fault) ==
    gateway_step("execute_query", <<>>, fault,
                 execute_query(order_by_name(departments), fault = 2), tables_now)

\* execute_update("DELETE FROM employees WHERE id = %s", (emp_id,))
ExecuteUpdate(emp_id, fault) ==
    LET stmt == delete_employee(employees, emp_id)
        r == execute_update(stmt, fault = 2)
    IN gateway_step("execute_update", [emp_id |-> emp_id], fault, r,
                    IF r.outcome = "raise" THEN tables_now
                    ELSE [tables_now EXCEPT !.employees = stmt.table])

GetLastInsertId(fault) ==
    gateway_step("get_last_insert_id", <<>>, fault,
                 IF fault = 2
                 THEN [outcome |-> "raise", value |-> ErrLostConnection]
                 ELSE [outcome |-> "return", value |-> get_last_insert_id],
                 tables_now)

\* again: the call before this one was initialize_database too and ran its
\* statements.
InitializeDatabase(fault) ==
    LET r == initialize_database(users, departments, employees, auto_increment)
        again == last.op = "initialize_database" /\ last.fault = 0
    IN gateway_step("initialize_database", [again |-> again], fault,
                    IF fault = 2
                    THEN [outcome |-> "raise", value |-> ErrLostConnection]
                    ELSE r,
                    IF fault = 2 THEN tables_now
                    ELSE [users |-> r.users, departments |-> r.departments,
                          employees |-> r.employees, auto |-> r.auto])

NextConnection ==
    \/ \E fault \in 0..1 : Connect(fault)
    \/ Close
    \/ \E fault \in 0..2 : ExecuteQuery(fault)
    \/ \E i \in EmployeeIds, fault \in 0..2 : ExecuteUpdate(i, fault)
    \/ \E fault \in 0..2 : GetLastInsertId(fault)
    \/ \E fault \in 0..2 : InitializeDatabase(fault)

SpecConnection == InitConnection /\ [][NextConnection]_vars

(***************************************************************************)
(* initialize_database from a server without tables, between deletions of  *)
(* the departments it has seeded (the department form deletes a row chosen *)
(* from the listing).                                                      *)
(***************************************************************************)
MaxSeedings == 2

InitServer ==
    /\ users = {}
    /\ departments = {}
    /\ employees = {}
    /\ auto_increment = [users |-> 1, departments |-> 1, employees |-> 1]
    /\ current_user = None
    /\ connection = None
    /\ server_connections = <<>>
    /\ last = call("init", <<>>, 0, "return", None)
    /\ app = no_app
    /\ pre = [users |-> {}, departments |-> {}, employees |-> {},
              current_user |-> None]

NextInitialize ==
    \/ \E fault \in 0..2 :
          /\ auto_increment.departments <= (MaxSeedings - 1) * Len(sample_departments) + 1
          /\ InitializeDatabase(fault)
    \/ \E d \in departments :
          /\ d.id <= Len(sample_departments)
          /\ connection # None
          /\ DepartmentDelete(d.id, 0)

SpecInitialize == InitServer /\ [][NextInitialize]_vars

(***************************************************************************)
(* One session of the service next to the record calls: registrations and  *)
(* logins of two accounts, logout, and each call of the models on the      *)
(* first department and the first employee.                                *)
(***************************************************************************)
SessionUsernames == {S_admin, S_bob}
SessionPasswords == {S_admin123, S_hunter22}
SessionForm == form(person(S_John, S_Smith, S_john_x, S_Clerk, 50000), None)

NextSession ==
    \/ \E u \in SessionUsernames, p \in SessionPasswords, fault \in 0..2 :
          Register(u, p, fault)
    \/ \E u \in SessionUsernames, p \in SessionPasswords, fault \in 0..1 :
          Login(u, p, fault)
    \/ Logout
    \/ IsAuthenticated
    \/ \E fault \in 0..2 : DepartmentCreate(S_IT, <<>>, fault)
    \/ \E fault \in 0..1 : DepartmentUpdate(1, S_HR, <<>>, fault)
    \/ \E fault \in 0..1 : DepartmentDelete(1, fault)
    \/ \E d \in {None, Some(1)}, fault \in 0..2 :
          EmployeeCreate([SessionForm EXCEPT !.department_id = d], fault)
    \/ \E fault \in 0..1 : EmployeeUpdate(1, SessionForm, fault)
    \/ \E fault \in 0..1 : EmployeeDelete(1, fault)
    \/ \E fault \in 0..1 : GetStatistics(fault)
    \/ \E fault \in 0..1 : HasEmployees(1, fault)
    \/ \E fault \in 0..1 : EmployeeGetAll(fault)

SpecSession == Init /\ [][NextSession]_vars

(***************************************************************************)
(* The writes over a stored population: registrations, and creates and     *)
(* updates of departments and employees next to the stored rows.           *)
(***************************************************************************)
WriterUsernames == {S_admin, S_bob, S_Bob}
StoredEmployeeIds == {e.id : e \in StoredEmployees}

\* The stored population without employee 2, whose email is then free.
InitWrites == InitSearch /\ employees = {e \in StoredEmployees : e.id # 2}

DepartmentCreateStored(name, description, fault) ==
    LET r == department_create(departments, employees, auto_increment.departments,
                               name, description, fault)
    IN /\ r.auto <= Cardinality(StoredDepartments) + MaxDepartments + 1
       /\ record_step("department_create",
                      [name |-> name, description |-> description],
                      fault, with_auto(r, "departments"))

EmployeeCreateStored(f, fault) ==
    LET r == employee_create(departments, employees, auto_increment.employees, f, fault)
    IN /\ r.auto <= Cardinality(StoredEmployees) + MaxEmployees
       /\ record_step("employee_create", f, fault, with_auto(r, "employees"))

NextWrites ==
    \/ \E u \in WriterUsernames, fault \in 0..2 : Register(u, S_hunter22, fault)
    \/ \E n \in NewDepartmentNames, fault \in 0..2 :
          DepartmentCreateStored(n, <<>>, fault)
    \/ \E i \in StoredDepartmentIds, n \in NewDepartmentNames, fault \in 0..1 :
          DepartmentUpdate(i, n, <<>>, fault)
    \/ \E p \in Persons, fault \in 0..2 : EmployeeCreateStored(form(p, None), fault)
    \/ \E i \in StoredEmployeeIds, p \in Persons, fault \in 0..1 :
          EmployeeUpdate(i, form(p, None), fault)

SpecWrites == InitWrites /\ [][NextWrites]_vars

(***************************************************************************)
(* The calls of validate_date on what is typed in the hire date entry.     *)
(***************************************************************************)
DateYears ==
    {<<"0", "0", "0", "0">>, <<"0", "0", "0", "1">>, <<"1", "9", "0", "0">>,
     <<"2", "0", "0", "0">>, <<"2", "0", "2", "3">>, <<"2", "0", "2", "4">>,
     <<"2", "1", "0", "0">>}
DateMonths ==
    {<<"0", "0">>, <<"0", "1">>, <<"0", "2">>, <<"0", "4">>, <<"1", "2">>,
     <<"1", "3">>}
DateDays ==
    {<<"0", "0">>, <<"0", "1">>, <<"2", "8">>, <<"2", "9">>, <<"3", "0">>,
     <<"3", "1">>, <<"3", "2">>}

S_date_2024_02_29 == <<"2", "0", "2", "4", "-", "0", "2", "-", "2", "9">>
S_date_2024_02_30 == <<"2", "0", "2", "4", "-", "0", "2", "-", "3", "0">>

\* Entries that are not a date written as YYYY-MM-DD.
OtherDateEntries ==
    {<<>>, <<" ">>, <<"\t", " ">>,
     <<"0", "1", "/", "1", "5", "/", "2", "0", "2", "4">>,
     <<"2", "0", "2", "4", "-", "2", "-", "2", "9">>,
     <<"2", "0", "2", "4", "0", "2", "2", "9">>,
     <<" ">> \o S_date_2024_02_29,
     S_date_2024_02_29 \o <<" ">>,
     S_date_2024_02_29 \o <<"\n">>,
     <<"2", "0", "2", "4", "-", "0", "2", "-", "2", "x">>,
     <<"2", "0", "2", "4", ".", "0", "2", ".", "2", "9">>}

DateEntries ==
    {y \o <<"-">> \o m \o <<"-">> \o d :
        y \in DateYears, m \in DateMonths, d \in DateDays} \cup OtherDateEntries

ValidateDate(date_str) ==
    query_step("validate_date", [date_str |-> date_str], 0,
               [outcome |-> "return", value |-> validate_date(date_str)])

NextValidators == \E date_str \in DateEntries : ValidateDate(date_str)

SpecValidators == Init /\ [][NextValidators]_vars

(***************************************************************************)
(* The add and update forms of EmployeeForm (gui/employee_form.py) next to *)
(* direct calls of EmployeeModel.  The department entry is taken after     *)
(* get_selected_department_id: None or the id chosen from the listing.     *)
(***************************************************************************)
S_First_name == <<"F", "i", "r", "s", "t", " ", "n", "a", "m", "e">>
S_Last_name == <<"L", "a", "s", "t", " ", "n", "a", "m", "e">>
S_Email == <<"E", "m", "a", "i", "l">>
MsgEmployeeAdded == "Employee added successfully!"
MsgEmployeeUpdated == "Employee updated successfully!"

\* EmployeeForm.validate_form: (is_valid, error_message)
validate_form(entries) ==
    LET first == validate_required(entries.first_name, S_First_name)
        second == validate_required(entries.last_name, S_Last_name)
        email == strip(entries.email)
        third == validate_required(email, S_Email)
        phone == strip(entries.phone)
        salary_str == strip(entries.salary)
        hire_date == strip(entries.hire_date)
    IN IF ~ first[1] THEN first
       ELSE IF ~ second[1] THEN second
       ELSE IF ~ third[1] THEN third
       ELSE IF ~ validate_email(email) THEN <<FALSE, MsgInvalidEmail>>
       ELSE IF phone # <<>> /\ ~ validate_phone(phone) THEN <<FALSE, MsgInvalidPhone>>
       ELSE IF salary_str # <<>> /\ ~ validate_salary(salary_str)[1]
       THEN <<FALSE, validate_salary(salary_str)[2]>>
       ELSE IF hire_date # <<>> /\ ~ validate_date(hire_date)[1]
       THEN <<FALSE, validate_date(hire_date)[2]>>
       ELSE <<TRUE, "">>

\* salary = salary if valid else 0.0
salary_or_zero(salary_str) ==
    LET checked == validate_salary(salary_str)
    IN IF checked[1] THEN checked[3][1] ELSE 0

\* The fields the forms hand to the model.
fields_of(entries) ==
    [first_name |-> strip(entries.first_name), last_name |-> strip(entries.last_name),
     email |-> strip(entries.email), position |-> strip(entries.position),
     salary |-> salary_or_zero(strip(entries.salary)),
     department_id |-> entries.department]

\* EmployeeForm.save_employee; the value is what the message box shows.
save_employee(depts, emps, auto, entries, fault) ==
    LET checked == validate_form(entries)
        r == employee_create(depts, emps, auto, fields_of(entries), fault)
    IN IF ~ checked[1]
       THEN model_result("return", <<FALSE, checked[2]>>, depts, emps, auto)
       ELSE IF r.outcome = "raise"
       THEN [r EXCEPT !.outcome = "return",
                      !.value = <<FALSE, <<"Failed to add employee: ", r.value>>>>]
       ELSE [r EXCEPT !.value = <<TRUE, MsgEmployeeAdded>>]

\* update_employee() of EmployeeForm.load_employee_for_update
form_update_employee(depts, emps, auto, emp_id, entries, fault) ==
    LET email == strip(entries.email)
        r == employee_update(depts, emps, auto, emp_id, fields_of(entries), fault)
        refused(msg) == model_result("return", <<FALSE, msg>>, depts, emps, auto)
    IN IF strip(entries.first_name) = <<>> THEN refused(<<S_First_name, " is required">>)
       ELSE IF strip(entries.last_name) = <<>> THEN refused(<<S_Last_name, " is required">>)
       ELSE IF email = <<>> THEN refused(<<S_Email, " is required">>)
       ELSE IF ~ validate_email(email) THEN refused(MsgInvalidEmail)
       ELSE IF r.outcome = "raise"
       THEN [r EXCEPT !.outcome = "return",
                      !.value = <<FALSE, <<"Failed to update employee: ", r.value>>>>]
       ELSE [r EXCEPT !.value = <<TRUE, MsgEmployeeUpdated>>]

S_50000 == <<"5", "0", "0", "0", "0">>
S_minus_1000 == <<"-", "1", "0", "0", "0">>
S_abc == <<"a", "b", "c">>
S_minus_0 == <<"-", "0">>
S_555_1234 == <<"5", "5", "5", "-", "1", "2", "3", "4">>

SalaryEntries == {<<>>, S_50000, S_minus_1000, S_abc, S_minus_0}

FormEntries ==
    [first_name : {S_John}, last_name : {S_Smith}, email : {S_john_x, S_John},
     phone : {<<>>, S_555_1234}, position : {S_Clerk}, salary : SalaryEntries,
     department : {None}, hire_date : {<<>>, S_date_2024_02_30}]

\* The arguments of the direct calls: salary as a number of any sign.
ModelForms ==
    {form(person(S_Ann, S_Lee, S_asmith_x, S_Clerk, s), None) : s \in {-1000, 70000}}

SaveEmployee(entries, fault) ==
    LET r == save_employee(departments, employees, auto_increment.employees,
                           entries, fault)
    IN /\ r.auto <= MaxEmployees + 1
       /\ record_step("save_employee", entries, fault, with_auto(r, "employees"))

FormUpdateEmployee(emp_id, entries, fault) ==
    record_step("form_update_employee", [emp_id |-> emp_id, entries |-> entries],
                fault,
                keep_auto(form_update_employee(departments, employees,
                                               auto_increment.employees,
                                               emp_id, entries, fault)))

NextForms ==
    \/ \E entries \in FormEntries, fault \in 0..2 : SaveEmployee(entries, fault)
    \/ \E i \in EmployeeIds, entries \in FormEntries, fault \in 0..1 :
          FormUpdateEmployee(i, entries, fault)
    \/ \E f \in ModelForms, fault \in 0..2 : EmployeeCreate(f, fault)
    \/ \E i \in EmployeeIds, f \in ModelForms, fault \in 0..1 :
          EmployeeUpdate(i, f, fault)
    \/ \E i \in EmployeeIds, fault \in 0..1 : EmployeeDelete(i, fault)

SpecForms == Init /\ [][NextForms]_vars

(***************************************************************************)
(* SmartRecordsApp (main.py) with its windows, over runs of the program    *)
(* against one server, from a server without tables.  fault of the start:  *)
(* 0 none, 1 the server refuses the session, 2 the first statement of      *)
(* initialize_database loses the connection.                               *)
(***************************************************************************)
MsgPasswordRequired == "Password is required"
MsgPasswordsDiffer == "Passwords do not match"

\* The process ended: the objects are gone and the server has dropped the
\* session the process held.
exited == [login_window |-> FALSE, main_window |-> FALSE, mainloop |-> "exited"]

\* show_login() at the end of __init__, then run() enters mainloop().
login_shown == [login_window |-> TRUE, main_window |-> FALSE, mainloop |-> "running"]

\* handle_login opening the main window whenever login returned.
login_returned(r) == r.outcome = "return"

\* `if success:` in handle_login
login_success(r) == r.outcome = "return" /\ r.value[1]

\* A handler of the menu bar of MainWindow can run.
in_main_window == app.main_window /\ app.mainloop = "running"

\* SmartRecordsApp.__init__: DatabaseManager, initialize_database (sys.exit(1)
\* when it raises), the models, AuthManager, show_login.
SmartRecordsAppInit(fault) ==
    LET c == connect(None, server_connections, fault = 1)
        r == IF fault = 2
             THEN [outcome |-> "raise", value |-> ErrLostConnection,
                   users |-> users, departments |-> departments,
                   employees |-> employees, auto |-> auto_increment]
             ELSE initialize_database(users, departments, employees, auto_increment)
        refused == c.outcome = "raise"
        failed == refused \/ r.outcome = "raise"
    IN /\ app.mainloop \in {"not started", "exited"}
       /\ Len(server_connections) < MaxConnections
       /\ users' = IF refused THEN users ELSE r.users
       /\ departments' = IF refused THEN departments ELSE r.departments
       /\ employees' = IF refused THEN employees ELSE r.employees
       /\ auto_increment' = IF refused THEN auto_increment ELSE r.auto
       /\ current_user' = None
       /\ connection' = IF failed THEN None ELSE c.connection
       /\ server_connections' = IF failed THEN close(c.connection, c.server).server
                                ELSE c.server
       /\ app' = IF failed THEN exited ELSE login_shown
       /\ last' = call("SmartRecordsApp", <<>>, fault,
                       IF failed THEN "raise" ELSE "return",
                       IF refused THEN c.value ELSE r.value)
       /\ pre' = snapshot

\* LoginWindow.handle_login
handle_login(username, password, fault) ==
    LET r == login(users, auto_increment.users, current_user,
                   strip(username), password, fault)
    IN /\ app.login_window
       /\ app.mainloop = "running"
       /\ current_user' = r.current_user
       /\ app' = IF login_success(r)
                 THEN [app EXCEPT !.login_window = FALSE, !.main_window = TRUE]
                 ELSE app
       /\ last' = call("handle_login",
                       [username |-> username, password |-> password],
                       fault, r.outcome, r.value)
       /\ pre' = snapshot
       /\ UNCHANGED <<users, departments, employees, auto_increment, gateway>>

\* register() of LoginWindow.show_register
show_register(username, password, confirm, fault) ==
    LET name == strip(username)
        r == IF name = <<>>
             THEN auth_return(FALSE, MsgUsernameRequired, users,
                              auto_increment.users, current_user)
             ELSE IF password = <<>>
             THEN auth_return(FALSE, MsgPasswordRequired, users,
                              auto_increment.users, current_user)
             ELSE IF password # confirm
             THEN auth_return(FALSE, MsgPasswordsDiffer, users,
                              auto_increment.users, current_user)
             ELSE register_user(users, auto_increment.users, current_user,
                                name, password, fault)
    IN /\ app.login_window
       /\ app.mainloop = "running"
       /\ r.auto <= MaxUsers + 1
       /\ users' = r.users
       /\ auto_increment' = [auto_increment EXCEPT !.users = r.auto]
       /\ current_user' = r.current_user
       /\ last' = call("show_register",
                       [username |-> username, password |-> password,
                        confirm |-> confirm],
                       fault, r.outcome, r.value)
       /\ pre' = snapshot
       /\ UNCHANGED <<departments, employees, gateway, app>>

\* MainWindow.logout; confirmed is the answer to askyesno.
MainWindow_logout(confirmed) ==
    /\ in_main_window
    /\ current_user' = IF confirmed THEN logout(current_user) ELSE current_user
    /\ app' = IF confirmed THEN [app EXCEPT !.mainloop = "returned"] ELSE app
    /\ last' = call("MainWindow.logout", [confirmed |-> confirmed], 0,
                    "return", None)
    /\ pre' = snapshot
    /\ UNCHANGED <<users, departments, employees, auto_increment, gateway>>

\* The user closes the main window: mainloop() returns.
close_window ==
    /\ in_main_window
    /\ app' = [app EXCEPT !.mainloop = "returned"]
    /\ last' = call("close_window", <<>>, 0, "return", None)
    /\ pre' = snapshot
    /\ UNCHANGED <<users, departments, employees, auto_increment, current_user,
                   gateway>>

\* SmartRecordsApp.run after mainloop(): db_manager.close(), and the process
\* ends.
run ==
    LET c == close(connection, server_connections)
    IN /\ app.mainloop = "returned"
       /\ connection' = c.connection
       /\ server_connections' = c.server
       /\ app' = exited
       /\ last' = call("close", <<>>, 0, "return", None)
       /\ pre' = snapshot
       /\ UNCHANGED <<users, departments, employees, auto_increment, current_user>>

NextApp ==
    \/ \E fault \in 0..2 : SmartRecordsAppInit(fault)
    \/ \E u \in SessionUsernames, p \in SessionPasswords, fault \in 0..1 :
          handle_login(u, p, fault)
    \/ \E u \in SessionUsernames, p \in SessionPasswords,
          c \in SessionPasswords, fault \in 0..2 : show_register(u, p, c, fault)
    \/ in_main_window /\ \E fault \in 0..1 : EmployeeDelete(1, fault)
    \/ in_main_window /\ \E fault \in 0..1 : DepartmentGetAll(fault)
    \/ in_main_window /\ \E fault \in 0..1 : DepartmentDelete(1, fault)
    \/ in_main_window /\ \E fault \in 0..1 : GetStatistics(fault)
    \/ in_main_window /\ GenerateReportText(0)
    \/ \E confirmed \in BOOLEAN : MainWindow_logout(confirmed)
    \/ close_window
    \/ run

SpecApp == InitServer /\ [][NextApp]_vars

(***************************************************************************)
(* The whole program: every call, from the seeded database.                *)
(***************************************************************************)
Next ==
    NextAuth \/ NextRecords \/ NextSearch \/ NextConnection \/ NextInitialize
        \/ NextSession \/ NextWrites \/ NextValidators \/ NextForms
        \/ NextApp

Spec == Init /\ [][Next]_vars

(***************************************************************************)
(* Properties of the authentication service, under SpecAuth.               *)
(***************************************************************************)
valid_credentials(username, password) ==
    strip(username) # <<>> /\ Len(password) >= MinPasswordLen

registered(tbl, name) == \E row \in tbl : row.username = name

\* C1 as stated: for every non-blank username and every password of at
\* least 8 characters, when that username is not registered, register_user
\* succeeds, and the login that follows at once with the same arguments
\* succeeds and sets current_user to that username.  (Stated for the
\* usernames that fit the column; it fails for the longer ones as well.)
C1_Original ==
    /\ ( /\ last.op = "register_user"
         /\ last.fault = 0
         /\ valid_credentials(last.args.username, last.args.password)
         /\ Len(last.args.username) <= VarcharLen
         /\ ~ registered(pre.users, last.args.username) )
       => (last.outcome = "return" /\ last.value[1])
    /\ ( /\ last.op = "login"
         /\ last.fault = 0
         /\ last.args.after_register )
       => /\ last.outcome = "return"
          /\ last.value[1]
          /\ current_user # None
          /\ current_user[1].username = last.args.username

\* C1 amended: for every username whose stripped form t is not empty and
\* fits the column (at most 255 characters) and every password of at least
\* 8 characters, when no stored username equals t under the column's
\* collation and the statements execute, register_user succeeds and stores
\* t, and the login that follows at once with the same arguments succeeds
\* and sets current_user to the id of that row and to t.
C1_RegisterThenLogin ==
    /\ ( /\ last.op = "register_user"
         /\ last.fault = 0
         /\ valid_credentials(last.args.username, last.args.password)
         /\ Len(strip(last.args.username)) <= VarcharLen
         /\ ~ \E row \in pre.users : sql_equal(row.username, strip(last.args.username)) )
       => /\ last.outcome = "return"
          /\ last.value = <<TRUE, MsgRegistered>>
          /\ \E row \in users \ pre.users :
                /\ row.username = strip(last.args.username)
                /\ row.password = hash_password(last.args.password)
                /\ users = pre.users \cup {row}
    /\ ( /\ last.op = "login"
         /\ last.fault = 0
         /\ last.args.after_register )
       => /\ last.outcome = "return"
          /\ last.value = <<TRUE, MsgLoginSuccessful>>
          /\ \E row \in users :
                /\ row.username = strip(last.args.username)
                /\ current_user = Some([id |-> row.id, username |-> row.username])

\* C1 witness: " bob " was registered and the login that followed succeeded.
C1_Witness ==
    /\ last.op = "login"
    /\ last.fault = 0
    /\ last.args.after_register
    /\ last.args.username = S_bob_padded
    /\ last.value = <<TRUE, MsgLoginSuccessful>>
    /\ current_user # None

\* C2: in every state, a login with a registered username and a wrong
\* password and a login with a username that is not registered end the same
\* way, with the same message (both arguments given, the lookup failing or
\* not in both), and neither changes the session.
C2_SameFailure ==
    \A u1 \in Usernames, u2 \in Usernames, p1 \in Passwords, p2 \in Passwords,
       fault \in 0..1 :
        ( /\ u1 # <<>> /\ u2 # <<>> /\ p1 # <<>> /\ p2 # <<>>
          /\ \E row \in users : /\ sql_equal(row.username, strip(u1))
                                /\ row.password # hash_password(p1)
          /\ ~ \E row \in users : sql_equal(row.username, strip(u2)) )
        => LET wrong == login(users, auto_increment.users, current_user, u1, p1, fault)
               unknown == login(users, auto_increment.users, current_user, u2, p2, fault)
           IN /\ wrong.outcome = unknown.outcome
              /\ wrong.value = unknown.value
              /\ wrong.current_user = current_user
              /\ unknown.current_user = current_user
              /\ (fault = 0 => wrong.value[1] = FALSE)

\* C2 witness: a login with the registered username bob and a wrong password
\* was refused, in a state where amy is not registered.
C2_Witness ==
    /\ last.op = "login"
    /\ last.fault = 0
    /\ last.args.username = S_bob
    /\ registered(users, S_bob)
    /\ ~ registered(users, S_amy)
    /\ last.value = <<FALSE, MsgWrongPassword>>
    /\ login(users, auto_increment.users, current_user, S_amy, last.args.password, 0).value
         = last.value

\* C3: once a username is stored, every register_user whose username strips
\* to it, with a valid password and the lookup executing, returns the
\* conflict message and inserts nothing; no register_user returns the
\* driver's duplicate-entry message.
C3_DuplicateIsConflict ==
    last.op = "register_user" =>
        /\ ( /\ last.fault # 1
             /\ Len(last.args.password) >= MinPasswordLen
             /\ registered(pre.users, strip(last.args.username)) )
           => /\ last.outcome = "return"
              /\ last.value = <<FALSE, MsgUsernameExists>>
              /\ users = pre.users
        /\ last.outcome = "return"
           => last.value # <<FALSE, <<"Registration failed: ", ErrDuplicateEntry>>>>
        /\ last.outcome = "raise" => last.value # ErrDuplicateEntry

\* C3 witness: bob was registered by register_user, and a later
\* register_user(" bob ") was refused as a conflict.
C3_Witness ==
    /\ last.op = "register_user"
    /\ last.args.username = S_bob_padded
    /\ \E row \in pre.users : row.username = S_bob /\ row.id > 1
    /\ last.value = <<FALSE, MsgUsernameExists>>
    /\ users = pre.users

\* C8: register_user never raises; when a statement it issues fails (the
\* lookup or the insert) it returns failure with the driver's message and
\* adds no row.
C8_RegisterNeverRaises ==
    last.op = "register_user" =>
        /\ last.outcome = "return"
        /\ ( /\ valid_credentials(last.args.username, last.args.password)
             /\ \/ last.fault = 1
                \/ last.fault = 2 /\ ~ registered(pre.users, strip(last.args.username)) )
           => /\ last.value = <<FALSE, <<"Registration failed: ", ErrLostConnection>>>>
              /\ users = pre.users

(***************************************************************************)
(* Properties of the record models, under SpecRecords and SpecSearch.      *)
(***************************************************************************)

\* C4: deleting a department that at least one employee references returns
\* True; afterwards the department is gone, every employee that referenced
\* it has department_id NULL and is otherwise as before, and every other
\* employee row is untouched: the employees are the same ones as before.
C4_DeleteDecouples ==
    ( /\ last.op = "department_delete"
      /\ last.fault = 0
      /\ \E e \in pre.employees : e.department_id = Some(last.args.dept_id) )
    => /\ last.outcome = "return"
       /\ last.value = TRUE
       /\ ~ \E d \in departments : d.id = last.args.dept_id
       /\ \A e \in pre.employees :
             IF e.department_id = Some(last.args.dept_id)
             THEN [e EXCEPT !.department_id = None] \in employees
             ELSE e \in employees
       /\ {e.id : e \in employees} = {e.id : e \in pre.employees}
       /\ Cardinality(employees) = Cardinality(pre.employees)

\* C4 witness: a department with one employee in it and one outside it was
\* deleted.
C4_Witness ==
    /\ last.op = "department_delete"
    /\ last.fault = 0
    /\ last.outcome = "return"
    /\ last.value = TRUE
    /\ \E e \in pre.employees : e.department_id = Some(last.args.dept_id)
    /\ \E e \in pre.employees : e.department_id = None
    /\ Cardinality(employees) = 2
    /\ \A e \in employees : e.department_id = None

\* C5: on an empty employees table get_statistics returns count, average,
\* minimum, maximum and total all 0.
C5_ZeroOnEmptyTable ==
    ( /\ last.op = "get_statistics"
      /\ last.fault = 0
      /\ pre.employees = {} )
    => (last.outcome = "return" /\ last.value = zero_statistics)

\* C6: create returns the id of the row it inserted, and get_by_id of that
\* id returns the fields that were passed in.
C6_CreateReturnsId ==
    ( /\ last.op = "employee_create"
      /\ last.outcome = "return" )
    => /\ last.value # None
       /\ \E e \in employees \ pre.employees :
             /\ last.value = Some(e.id)
             /\ employee_get_by_id(departments, employees, e.id, 0).value
                  = Some(left_join(departments, employee_row(e.id, last.args)))

\* t is a substring of text, case disregarded.
contains(text, t) ==
    \E i \in 1..(Len(text) - Len(t) + 1) :
        \A j \in 1..Len(t) : fold_char(text[i + j - 1]) = fold_char(t[j])

matches(e, t) ==
    \/ contains(e.first_name, t) \/ contains(e.last_name, t)
    \/ contains(e.email, t) \/ contains(e.position, t)

\* C7: search(term) returns exactly the rows of get_all in which the term is
\* a case-insensitive substring of first_name, last_name, email or position,
\* in the order of get_all.
C7_SearchIsSubstringFilter ==
    ( /\ last.op = "employee_search"
      /\ last.fault = 0 )
    => /\ last.outcome = "return"
       /\ LET all == employee_get_all(departments, employees, 0).value
              hit(e) == matches(e, last.args.search_term)
          IN last.value = SelectSeq(all, hit)

MutationOps ==
    {"login", "department_create", "department_update", "department_delete",
     "employee_create", "employee_update", "employee_delete"}

\* C9: login and the create, update and delete calls of both models never
\* raise; when a statement fails the stored rows are left as they were.
C9_MutationsNeverRaise ==
    last.op \in MutationOps =>
        /\ last.outcome = "return"
        /\ last.fault # 0 => /\ departments = pre.departments
                             /\ employees = pre.employees

\* C10: when its query fails, get_statistics does not raise and returns the
\* all-zero record, which has the fields of the record returned for an
\* empty table.
C10_ZeroOnFailure ==
    ( /\ last.op = "get_statistics"
      /\ last.fault = 1 )
    => /\ last.outcome = "return"
       /\ last.value = zero_statistics
       /\ DOMAIN last.value = DOMAIN get_statistics({}, 0).value

\* C10 witness: the query failed while two employees were stored.
C10_Witness ==
    /\ last.op = "get_statistics"
    /\ last.fault = 1
    /\ Cardinality(employees) = 2
    /\ last.value.total_employees = 0
    /\ last.value.total_salary = Some(0)

(***************************************************************************)
(* Properties of the reads and of the return values, under SpecRecords.    *)
(***************************************************************************)

\* C11: has_employees(id) returns True exactly when at least one stored
\* employee has that department_id; when the count query fails it returns
\* False and does not raise.
C11_HasEmployees ==
    last.op = "has_employees" =>
        /\ last.outcome = "return"
        /\ last.fault = 0 =>
              (last.value = TRUE <=>
                  \E e \in employees : e.department_id = Some(last.args.dept_id))
        /\ last.fault = 1 => last.value = FALSE

\* C11 witness: has_employees returned True for a department that one of two
\* stored employees references.
C11_Witness ==
    /\ last.op = "has_employees"
    /\ last.fault = 0
    /\ last.value = TRUE
    /\ \E e \in employees : e.department_id = Some(last.args.dept_id)
    /\ \E e \in employees : e.department_id = None

\* C11 witness of the failing query: False although an employee references
\* the department.
C11_WitnessFailure ==
    /\ last.op = "has_employees"
    /\ last.fault = 1
    /\ last.value = FALSE
    /\ \E e \in employees : e.department_id = Some(last.args.dept_id)

UpdateOps == {"department_update", "employee_update"}

\* The table an update or delete call works on, before and after the call.
table_before == IF last.op \in {"department_update", "department_delete"}
                THEN pre.departments ELSE pre.employees

table_after == IF last.op \in {"department_update", "department_delete"}
               THEN departments ELSE employees

\* The id a call was given.
id_given == IF last.op \in {"department_update", "department_delete"}
            THEN last.args.dept_id ELSE last.args.emp_id

\* C12: an update call that returns, returns True exactly when a row with
\* the given id existed and the call changed it; when no row has the id it
\* returns False and every stored row is as before.
C12_UpdateReturn ==
    ( /\ last.op \in UpdateOps
      /\ last.outcome = "return" )
    => /\ last.value = TRUE <=>
             \E old \in table_before :
                /\ old.id = id_given
                /\ old \notin table_after
                /\ \E new \in table_after : new.id = id_given
       /\ (~ \E old \in table_before : old.id = id_given)
             => /\ last.value = FALSE
                /\ departments = pre.departments
                /\ employees = pre.employees
       /\ last.value = FALSE => /\ departments = pre.departments
                                /\ employees = pre.employees

\* C12 witness: update renamed the stored department and returned True.
C12_Witness ==
    /\ last.op = "department_update"
    /\ last.outcome = "return"
    /\ last.value = TRUE
    /\ \E old \in pre.departments, new \in departments :
          old.id = new.id /\ old.name # new.name

\* C12 witness of the unchanged row: update of an employee with the values
\* it already has returned False.
C12_WitnessSameValues ==
    /\ last.op = "employee_update"
    /\ last.outcome = "return"
    /\ last.value = FALSE
    /\ \E e \in pre.employees : e.id = last.args.emp_id

DeleteOps == {"department_delete", "employee_delete"}

\* get_by_id of the table a delete call works on, after the call.
get_by_id_after ==
    IF last.op = "department_delete"
    THEN department_get_by_id(departments, id_given, 0)
    ELSE employee_get_by_id(departments, employees, id_given, 0)

\* C13: a delete call that returns, returns True exactly when a row with the
\* given id existed; after True get_by_id(id) returns None and every other
\* row of the table is as before; after False nothing has changed.
C13_DeleteReturn ==
    ( /\ last.op \in DeleteOps
      /\ last.outcome = "return" )
    => /\ last.value = TRUE <=> \E old \in table_before : old.id = id_given
       /\ last.value = TRUE =>
             /\ get_by_id_after = [outcome |-> "return", value |-> None]
             /\ table_after = {r \in table_before : r.id # id_given}
       /\ last.value = FALSE => /\ departments = pre.departments
                                /\ employees = pre.employees

\* C13 witness: one of two stored employees was deleted, the other stayed.
C13_Witness ==
    /\ last.op = "employee_delete"
    /\ last.outcome = "return"
    /\ last.value = TRUE
    /\ Cardinality(pre.employees) = 2
    /\ Cardinality(employees) = 1

\* C13 witness of the missing row: delete of an id no department has
\* returned False.
C13_WitnessMissing ==
    /\ last.op = "department_delete"
    /\ last.outcome = "return"
    /\ last.value = FALSE
    /\ employees # {}

(***************************************************************************)
(* Properties of the listings, under SpecSearch.                           *)
(***************************************************************************)

\* The fields of a stored employee as they appear in a row of a listing.
same_employee(row, e) ==
    /\ row.id = e.id
    /\ row.first_name = e.first_name /\ row.last_name = e.last_name
    /\ row.email = e.email /\ row.position = e.position
    /\ row.salary = e.salary /\ row.department_id = e.department_id

\* The name the referenced department has now; absent without a reference.
current_department_name(row) ==
    IF row.department_id = None THEN row.department_name = None
    ELSE \E d \in departments : /\ row.department_id = Some(d.id)
                                 /\ row.department_name = Some(d.name)

\* y does not come before x in the order of last_name, then first_name.
in_name_order(x, y) ==
    /\ ~ str_less(y.last_name, x.last_name)
    /\ sql_equal(x.last_name, y.last_name) => ~ str_less(y.first_name, x.first_name)

employee_listing_ok(rows) ==
    /\ Len(rows) = Cardinality(employees)
    /\ \A e \in employees : \E i \in 1..Len(rows) : same_employee(rows[i], e)
    /\ \A i \in 1..Len(rows) : current_department_name(rows[i])
    /\ \A i \in 1..Len(rows), j \in 1..Len(rows) :
          i < j => in_name_order(rows[i], rows[j])

department_listing_ok(rows) ==
    /\ Len(rows) = Cardinality(departments)
    /\ \A d \in departments : \E i \in 1..Len(rows) : rows[i] = d
    /\ \A i \in 1..Len(rows), j \in 1..Len(rows) :
          i < j => ~ str_less(rows[j].name, rows[i].name)

\* C14: EmployeeModel.get_all returns every stored employee once, those
\* without a department with an absent department_name, ordered by
\* last_name then first_name; DepartmentModel.get_all returns every stored
\* department once, ordered by name; department_name is the current name of
\* the referenced department, so after update has renamed a department the
\* listing shows the new name.
C14_GetAll ==
    /\ (last.op = "employee_get_all" /\ last.fault = 0)
          => (last.outcome = "return" /\ employee_listing_ok(last.value))
    /\ (last.op = "department_get_all" /\ last.fault = 0)
          => (last.outcome = "return" /\ department_listing_ok(last.value))
    /\ (last.op = "department_update" /\ last.outcome = "return" /\ last.value = TRUE)
          => LET rows == employee_get_all(departments, employees, 0).value
             IN /\ employee_listing_ok(rows)
                /\ \A i \in 1..Len(rows) :
                      rows[i].department_id = Some(last.args.dept_id)
                        => rows[i].department_name = Some(last.args.name)

\* C14 witness: get_all listed four employees, one of them without a
\* department, with the departments stored in an order of ids that is not
\* the order of their names.
C14_Witness ==
    /\ last.op = "employee_get_all"
    /\ last.fault = 0
    /\ Len(last.value) = 4
    /\ \E i \in 1..4 : last.value[i].department_name = None
    /\ \E i \in 1..4 : last.value[i].department_name = Some(S_Ops)
    /\ last.value[1].id > last.value[4].id
    /\ \E d1 \in departments, d2 \in departments :
          d1.id < d2.id /\ str_less(d2.name, d1.name)

\* C14 witness of the rename: update gave a department that two employees
\* reference a new name.
C14_WitnessRename ==
    /\ last.op = "department_update"
    /\ last.outcome = "return"
    /\ last.value = TRUE
    /\ last.args.name = S_Ops
    /\ \E e \in employees : e.department_id = Some(last.args.dept_id)

\* C14 witness of the department listing: two departments listed in the
\* order of their names, against the order of their ids.
C14_WitnessDepartments ==
    /\ last.op = "department_get_all"
    /\ last.fault = 0
    /\ Len(last.value) = 2
    /\ last.value[1].id > last.value[2].id

(***************************************************************************)
(* Properties of the connection, under SpecConnection.                     *)
(***************************************************************************)
open_connections == {i \in 1..Len(server_connections) : server_connections[i] = "open"}

released_connections ==
    {i \in 1..Len(server_connections) : server_connections[i] = "closed"}

\* C15 as stated: no session before the first use; at most one session open
\* at any time; a session is released by close only and stays released; and
\* once a session was released, no later call opens another.
C15_Original ==
    [][ /\ Cardinality(open_connections) <= 1
        /\ \A i \in released_connections : server_connections'[i] = "closed"
        /\ (\E i \in open_connections : server_connections'[i] = "closed")
              => last'.op = "close"
        /\ released_connections # {}
              => Len(server_connections') = Len(server_connections) ]_vars

\* C15: no session is opened before a call needs one; at most one session
\* is open at any time and it is the one the gateway holds; a session is
\* released by close only and stays released; a call that needs a session
\* when none is held opens a new one, also after close has released the
\* previous one, and no other call opens one.
C15_ConnectionLifecycle ==
    [][ /\ Cardinality(open_connections) <= 1
        /\ (last.op = "init") => (connection = None /\ server_connections = <<>>)
        /\ \A i \in open_connections : connection = Some(i)
        /\ (connection # None) => (connection[1] \in open_connections)
        /\ \A i \in released_connections : server_connections'[i] = "closed"
        /\ (\E i \in open_connections : server_connections'[i] = "closed")
              => last'.op = "close"
        /\ Len(server_connections') # Len(server_connections)
              => /\ connection = None
                 /\ last'.op \notin {"close", "init"}
                 /\ last'.fault # 1
                 /\ server_connections' = Append(server_connections, "open")
        /\ (connection = None /\ last'.op # "close" /\ last'.fault # 1)
              => connection' = Some(Len(server_connections) + 1) ]_vars

\* C15 witness: a second session is open after close has released the
\* first.
C15_Witness ==
    /\ server_connections = <<"closed", "open">>
    /\ connection = Some(2)
    /\ last.op = "execute_query"
    /\ last.outcome = "return"

(***************************************************************************)
(* Properties of initialize_database, under SpecInitialize.                *)
(***************************************************************************)

\* C16: a call of initialize_database that follows one that has run its
\* statements adds, changes and removes no row of the three tables; the
\* administrator is inserted only into an empty users table, the sample
\* departments and employees only when the departments table is empty.
C16_Idempotent ==
    ( /\ last.op = "initialize_database"
      /\ last.fault = 0 )
    => /\ LET second == initialize_database(users, departments, employees,
                                            auto_increment)
          IN /\ second.outcome = "return"
             /\ second.users = users
             /\ second.departments = departments
             /\ second.employees = employees
       /\ last.args.again => /\ users = pre.users
                             /\ departments = pre.departments
                             /\ employees = pre.employees
       /\ users # pre.users => pre.users = {}
       /\ (departments # pre.departments \/ employees # pre.employees)
             => pre.departments = {}

\* C16 witness: the second of two calls in succession on the seeded
\* database, with the administrator, ten departments and 24 employees.
C16_Witness ==
    /\ last.op = "initialize_database"
    /\ last.fault = 0
    /\ last.args.again
    /\ last.outcome = "return"
    /\ Cardinality(users) = 1
    /\ Cardinality(departments) = Len(sample_departments)
    /\ Cardinality(employees) = Len(sample_employees(<<>>))

\* C16 witness of the emptied departments table: the call seeded the
\* departments again and left the users and the employees alone.
C16_WitnessReseed ==
    /\ last.op = "initialize_database"
    /\ last.fault = 0
    /\ pre.departments = {}
    /\ pre.users # {}
    /\ users = pre.users
    /\ Cardinality(departments) = Len(sample_departments)
    /\ employees = pre.employees

\* C17 (under SpecAuth, whose first state is the database as
\* initialize_database leaves a server with no user): the digest stored for
\* admin is hash_password("admin123"), and login("admin", "admin123")
\* succeeds and sets current_user to the admin row.
C17_AdminLogin ==
    /\ \E u \in users : /\ u.username = S_admin
                         /\ u.password = hash_password(S_admin123)
    /\ ( /\ last.op = "login"
         /\ last.args.username = S_admin
         /\ last.args.password = S_admin123
         /\ last.fault = 0 )
       => /\ last.outcome = "return"
          /\ last.value = <<TRUE, MsgLoginSuccessful>>
          /\ \E u \in users : /\ u.username = S_admin
                               /\ current_user = Some([id |-> u.id,
                                                       username |-> S_admin])

\* C17 witness: admin logged in with admin123 while bob was the user of
\* the session.
C17_Witness ==
    /\ last.op = "login"
    /\ last.args.username = S_admin
    /\ last.args.password = S_admin123
    /\ last.fault = 0
    /\ pre.current_user # None
    /\ pre.current_user[1].username = S_bob
    /\ current_user # None
    /\ current_user[1].username = S_admin

(***************************************************************************)
(* Properties of the report, under SpecSearch.                             *)
(***************************************************************************)

\* The label of the bucket an employee row belongs to.
bucket_of(row) ==
    IF row.department_name = None THEN S_NoDepartment ELSE row.department_name[1]

RECURSIVE sum_counts(_)
sum_counts(lines) ==
    IF lines = <<>> THEN 0 ELSE Head(lines)[2] + sum_counts(Tail(lines))

\* C18: the department-wise count of the text report has one line for each
\* department_name among the rows of get_all and one line "No Department"
\* for the rows without a department, each with the number of its rows, the
\* lines sorted by label, and the counts add up to the number of rows of
\* get_all.
C18_DepartmentBreakdown ==
    ( /\ last.op = "generate_report_text"
      /\ last.fault = 0 )
    => /\ last.outcome = "return"
       /\ LET rows == employee_get_all(departments, employees, 0).value
              lines == last.value.department_wise_count
          IN /\ {lines[i][1] : i \in 1..Len(lines)}
                   = {bucket_of(rows[i]) : i \in 1..Len(rows)}
             /\ \A i \in 1..Len(lines) :
                   lines[i][2] = Cardinality({j \in 1..Len(rows) :
                                                bucket_of(rows[j]) = lines[i][1]})
             /\ \A i \in 1..Len(lines), j \in 1..Len(lines) :
                   i < j => py_str_less(lines[i][1], lines[j][1])
             /\ sum_counts(lines) = Len(rows)

(***************************************************************************)
(* Properties of the statistics, under SpecSearch.                         *)
(***************************************************************************)

\* The salaries of the stored employees, one entry for each row.
salaries == [i \in 1..Cardinality(employees) |-> by_id(employees)[i].salary]

RECURSIVE total_of(_)
total_of(amounts) ==
    IF amounts = <<>> THEN 0 ELSE Head(amounts) + total_of(Tail(amounts))

\* avg, as <<whole, millionths>>, is total / count to the six decimals AVG
\* gives for a DECIMAL(10,2) column.
is_quotient(avg, total, count) ==
    /\ avg[1] = total \div count
    /\ avg[2] \in 0..(MicroPerUnit - 1)
    /\ LET diff == avg[2] * count - (total % count) * MicroPerUnit
       IN 2 * diff <= count /\ 2 * diff >= - count

\* C19: over a non-empty employees table get_statistics returns the number
\* of employees, the sum of their salaries, the smallest and the largest
\* salary, and total / count as the average; for the salaries 50000, 70000
\* and 90000 that is 3, 70000, 50000, 90000 and 210000.
C19_Statistics ==
    ( /\ last.op = "get_statistics"
      /\ last.fault = 0
      /\ employees # {} )
    => /\ last.outcome = "return"
       /\ last.value.total_employees = Len(salaries)
       /\ last.value.total_salary = Some(total_of(salaries))
       /\ \E i \in 1..Len(salaries) : last.value.min_salary = Some(salaries[i])
       /\ \E i \in 1..Len(salaries) : last.value.max_salary = Some(salaries[i])
       /\ \A i \in 1..Len(salaries) : /\ last.value.min_salary[1] <= salaries[i]
                                       /\ last.value.max_salary[1] >= salaries[i]
       /\ last.value.avg_salary # None
       /\ is_quotient(last.value.avg_salary[1], total_of(salaries), Len(salaries))
       /\ salaries = <<50000, 70000, 90000>>
             => last.value = [total_employees |-> 3,
                              avg_salary |-> Some(<<70000, 0>>),
                              min_salary |-> Some(50000),
                              max_salary |-> Some(90000),
                              total_salary |-> Some(210000)]

\* C19 witness: the statistics of the three employees with the salaries
\* 50000, 70000 and 90000.
C19_Witness ==
    /\ last.op = "get_statistics"
    /\ last.fault = 0
    /\ salaries = <<50000, 70000, 90000>>
    /\ last.value.total_employees = 3
    /\ last.value.total_salary = Some(210000)

\* C19 witness of an average that is not a whole amount: 190000 / 3.
C19_WitnessFraction ==
    /\ last.op = "get_statistics"
    /\ last.fault = 0
    /\ last.value.total_employees = 3
    /\ last.value.total_salary = Some(190000)
    /\ last.value.avg_salary = Some(<<63333, 333333>>)

(***************************************************************************)
(* Properties of the validation in register_user, under SpecAuth.          *)
(***************************************************************************)

\* C20: register_user with a username that is empty or only whitespace, or
\* with a password of fewer than 8 characters, returns a validation
\* failure and adds no user; it reaches no database statement: the outcome
\* is this one also in the calls whose lookup or insert would have failed.
C20_RegisterValidation ==
    ( /\ last.op = "register_user"
      /\ \/ strip(last.args.username) = <<>>
         \/ Len(last.args.password) < 8 )
    => /\ last.outcome = "return"
       /\ last.value = <<FALSE, IF strip(last.args.username) = <<>>
                                THEN MsgUsernameRequired
                                ELSE MsgPasswordTooShort>>
       /\ users = pre.users
       /\ current_user = pre.current_user

\* C20 witness: a password of seven characters was refused although the
\* username was free, in a call whose lookup would have failed.
C20_Witness ==
    /\ last.op = "register_user"
    /\ last.fault = 1
    /\ last.args.username = S_amy
    /\ last.args.password = S_secret7
    /\ last.outcome = "return"
    /\ last.value = <<FALSE, MsgPasswordTooShort>>

\* C20 witness of the blank username: refused with a password that would do.
C20_WitnessBlank ==
    /\ last.op = "register_user"
    /\ last.fault = 2
    /\ last.args.username = S_blank
    /\ last.args.password = S_hunter22
    /\ last.value = <<FALSE, MsgUsernameRequired>>

(***************************************************************************)
(* Properties of the session pointer, under SpecSession.                   *)
(***************************************************************************)
login_succeeded ==
    last.op = "login" /\ last.outcome = "return" /\ last.value[1]

\* The user the lookup of the last login found.
authenticated_user ==
    CHOOSE u \in pre.users : sql_equal(u.username, strip(last.args.username))

\* C21: current_user is absent at the start; a successful login sets it to
\* the id and username of the user just authenticated, logout clears it,
\* and every other call (a failed, rejected or raising login, register_user
\* and each record call) leaves it as it was; is_authenticated returns
\* True exactly when current_user is present.
C21_SessionPointer ==
    /\ last.op = "init" => current_user = None
    /\ login_succeeded
       => current_user = Some([id |-> authenticated_user.id,
                               username |-> authenticated_user.username])
    /\ last.op = "logout" => current_user = None
    /\ (last.op \notin {"init", "logout"} /\ ~login_succeeded)
       => current_user = pre.current_user
    /\ last.op = "is_authenticated"
       => (last.outcome = "return" /\ last.value = (current_user # None))

\* C21 witness: a login succeeded while another user's session was held and
\* replaced it.
C21_Witness ==
    /\ login_succeeded
    /\ pre.current_user # None
    /\ current_user # None
    /\ current_user[1].id # pre.current_user[1].id

\* C21 witness of the frame: a record call changed the tables during a
\* session.
C21_WitnessRecordCall ==
    /\ last.op = "employee_create"
    /\ last.outcome = "return"
    /\ employees # pre.employees
    /\ current_user # None

\* C21 witness of logout without a session.
C21_WitnessLogout ==
    /\ last.op = "logout"
    /\ pre.current_user = None

(***************************************************************************)
(* Properties of the application, under SpecApp.                           *)
(***************************************************************************)

\* C22: a user row once created is never deleted and its username and
\* stored digest never change: in every step of the application the rows of
\* users before it are rows of users after it.
C22_UsersOnlyGrow == [][users \subseteq users']_vars

\* C22 witness: a later start-up of the program found the administrator and
\* a registered user stored and left both.
C22_Witness ==
    /\ last.op = "SmartRecordsApp"
    /\ last.outcome = "return"
    /\ Len(server_connections) = 2
    /\ Cardinality(users) = 2
    /\ users = pre.users

\* C22 witness of the first start-up: it stored the administrator.
C22_WitnessSeed ==
    /\ last.op = "SmartRecordsApp"
    /\ pre.users = {}
    /\ Cardinality(users) = 1

RecordOps ==
    {"department_create", "department_get_all", "department_update",
     "department_delete", "has_employees", "employee_create", "employee_get_all",
     "employee_search", "employee_update", "employee_delete", "get_statistics",
     "generate_report_text"}

gate_state ==
    /\ last.op \in RecordOps
       => /\ pre.current_user # None
          /\ current_user # None
          /\ in_main_window
    /\ in_main_window => current_user # None
    /\ (last.op = "MainWindow.logout" /\ last.args.confirmed)
       => /\ current_user = None
          /\ app.mainloop = "returned"
    /\ app.mainloop = "exited" => connection = None

gate_step ==
    /\ (~app.main_window /\ app'.main_window)
       => /\ last'.op = "handle_login"
          /\ last'.outcome = "return"
          /\ last'.value[1]
          /\ current_user' # None
    /\ app.mainloop = "returned"
       => /\ last'.op = "close"
          /\ connection' = None
          /\ app'.mainloop = "exited"

\* C27: no employee, department or report call runs while current_user is
\* absent; the main window comes to exist only in a handle_login whose login
\* succeeded; a confirmed logout clears the session and ends the event
\* loop, and the one step after the loop has ended is the release of the
\* connection.
C27_AuthenticationGate == []gate_state /\ [][gate_step]_vars

\* C27 witness: the connection was released after a confirmed logout.
C27_Witness ==
    /\ last.op = "close"
    /\ pre.current_user = None
    /\ app.mainloop = "exited"
    /\ connection = None
    /\ Cardinality(departments) < Len(sample_departments)

\* C27 witness of a record call inside a session.
C27_WitnessRecordCall ==
    /\ last.op = "department_delete"
    /\ last.outcome = "return"
    /\ last.value
    /\ current_user # None

(***************************************************************************)
(* Properties of the UNIQUE columns, under SpecWrites.  Two values are the *)
(* same when the collation of the column takes them as equal.              *)
(***************************************************************************)
unique_on(rows, column) ==
    \A x \in rows, y \in rows : sql_equal(x[column], y[column]) => x = y

taken(rows, column, value, own_id) ==
    \E x \in rows : x.id # own_id /\ sql_equal(x[column], value)

\* C23: no two users have the same username, no two departments the same
\* name and no two employees the same email; a register, create or update
\* whose value is held by another stored row leaves the rows as they were.
C23_Unique ==
    /\ unique_on(users, "username")
    /\ unique_on(departments, "name")
    /\ unique_on(employees, "email")
    /\ (last.op = "register_user" /\ valid_credentials(last.args.username, last.args.password)
        /\ taken(pre.users, "username", strip(last.args.username), 0))
       => users = pre.users
    /\ (last.op = "department_create"
        /\ taken(pre.departments, "name", last.args.name, 0))
       => departments = pre.departments
    /\ (last.op = "department_update"
        /\ taken(pre.departments, "name", last.args.name, last.args.dept_id))
       => departments = pre.departments
    /\ (last.op = "employee_create"
        /\ taken(pre.employees, "email", last.args.email, 0))
       => employees = pre.employees
    /\ (last.op = "employee_update"
        /\ taken(pre.employees, "email", last.args.form.email, last.args.emp_id))
       => employees = pre.employees

\* C23 witness: an update gave a stored department the name of the other
\* one and was refused.
C23_Witness ==
    /\ last.op = "department_update"
    /\ last.fault = 0
    /\ taken(pre.departments, "name", last.args.name, last.args.dept_id)
    /\ \E d \in pre.departments : d.id = last.args.dept_id
    /\ last.outcome = "raise"
    /\ last.value = ErrDuplicateEntry

\* C23 witness of the employees: an update to the email of another row.
C23_WitnessEmail ==
    /\ last.op = "employee_update"
    /\ last.fault = 0
    /\ taken(pre.employees, "email", last.args.form.email, last.args.emp_id)
    /\ \E e \in pre.employees : e.id = last.args.emp_id
    /\ last.value = ErrDuplicateEntry

\* C23 witness of the users: a username differing only in case from a
\* stored one.
C23_WitnessUsername ==
    /\ last.op = "register_user"
    /\ last.fault = 0
    /\ last.args.username = S_Bob
    /\ \E u \in pre.users : u.username = S_bob
    /\ last.value = <<FALSE, MsgUsernameExists>>

\* C23 witness of the creates.
C23_WitnessCreate ==
    /\ last.op = "employee_create"
    /\ last.fault = 0
    /\ taken(pre.employees, "email", last.args.email, 0)
    /\ last.outcome = "raise"


\* C23 witness of a create that went through: the email was free.
C23_WitnessFree ==
    /\ last.op = "employee_create"
    /\ last.outcome = "return"
    /\ employees # pre.employees

(***************************************************************************)
(* Properties of the department reference, under SpecRecords.              *)
(***************************************************************************)

\* C24: every stored employee's department_id is absent or is the id of a
\* stored department, after any creates, updates and deletes of employees
\* and departments.
C24_ReferentialIntegrity ==
    \A e \in employees :
        \/ e.department_id = None
        \/ \E d \in departments : e.department_id = Some(d.id)

\* C24 witness: an update naming a department that is not stored was
\* refused by the foreign key.
C24_Witness ==
    /\ last.op = "employee_update"
    /\ last.fault = 0
    /\ last.args.form.department_id # None
    /\ ~ \E d \in pre.departments : last.args.form.department_id = Some(d.id)
    /\ \E e \in pre.employees : e.id = last.args.emp_id
    /\ last.outcome = "raise"
    /\ last.value = ErrForeignKey
    /\ employees = pre.employees

\* C24 witness of a reference that is stored.
C24_WitnessReference ==
    /\ \E e \in employees : \E d \in departments : e.department_id = Some(d.id)
    /\ \E e \in employees : e.department_id = None

\* C24 witness of the delete: the department that employees referred to is
\* gone and none refers to it.
C24_WitnessDelete ==
    /\ last.op = "department_delete"
    /\ \E e \in pre.employees : e.department_id = Some(last.args.dept_id)
    /\ departments # pre.departments
    /\ \A e \in employees : e.department_id # Some(last.args.dept_id)

(***************************************************************************)
(* Properties of validate_date, under SpecValidators.                      *)
(***************************************************************************)

\* Ten characters, digits around the two hyphens.
has_date_form(s) ==
    /\ Len(s) = 10
    /\ \A i \in 1..10 : IF i \in {5, 8} THEN s[i] = "-" ELSE is_digit(s[i])

\* The days a month has: February has 29 in the years divisible by 4 that
\* are not centuries, and in the centuries divisible by 400.
month_length(year, month) ==
    IF month \in {4, 6, 9, 11} THEN 30
    ELSE IF month # 2 THEN 31
    ELSE IF year % 400 = 0 THEN 29
    ELSE IF year % 100 = 0 THEN 28
    ELSE IF year % 4 = 0 THEN 29
    ELSE 28

\* A date of the calendar, whose years count from 1.
names_real_date(s) ==
    LET year == int_of(SubSeq(s, 1, 4))
        month == int_of(SubSeq(s, 6, 7))
        day == int_of(SubSeq(s, 9, 10))
    IN /\ year >= 1
       /\ month >= 1 /\ month <= 12
       /\ day >= 1 /\ day <= month_length(year, month)

\* C26: validate_date accepts an empty or whitespace-only string, and
\* accepts any other string exactly when it is written YYYY-MM-DD and names
\* a real calendar date: 2024-02-30 is rejected, 2024-02-29 accepted, and
\* 29 February of a year that is not a leap year rejected.
C26_ValidateDate ==
    last.op = "validate_date"
    => LET s == last.args.date_str
           accepted == last.value[1]
       IN /\ last.outcome = "return"
          /\ strip(s) = <<>> => accepted
          /\ strip(s) # <<>> => (accepted <=> (has_date_form(s) /\ names_real_date(s)))
          /\ s = S_date_2024_02_30 => ~ accepted
          /\ s = S_date_2024_02_29 => accepted

\* C26 witness: 29 February of 1900, a century that is no leap year, was
\* rejected as no date.
C26_Witness ==
    /\ last.op = "validate_date"
    /\ last.args.date_str = <<"1", "9", "0", "0", "-", "0", "2", "-", "2", "9">>
    /\ last.value[1] = FALSE
    /\ last.value[2] = MsgInvalidDate

\* C26 witness: 29 February 2000 was accepted.
C26_WitnessLeapCentury ==
    /\ last.op = "validate_date"
    /\ last.args.date_str = <<"2", "0", "0", "0", "-", "0", "2", "-", "2", "9">>
    /\ last.value[1]

\* C26 witness of the two dates the specification names.
C26_WitnessFebruary30 ==
    /\ last.op = "validate_date"
    /\ last.args.date_str = S_date_2024_02_30
    /\ ~ last.value[1]

C26_WitnessFebruary29 ==
    /\ last.op = "validate_date"
    /\ last.args.date_str = S_date_2024_02_29
    /\ last.value[1]

\* C26 witness of the empty entry.
C26_WitnessEmpty ==
    /\ last.op = "validate_date"
    /\ last.args.date_str = <<"\t", " ">>
    /\ last.value[1]

(***************************************************************************)
(* Properties of the stored salary, under SpecForms.                       *)
(***************************************************************************)

\* C25: every stored employee has a non-negative salary, whether the row
\* was written by a call of the model or through the add and update forms.
C25_NonNegativeSalary == \A e \in employees : e.salary >= 0

(***************************************************************************)
(* Start-up after the departments were deleted, under SpecInitialize.      *)
(***************************************************************************)

\* C28: a call of initialize_database on a reachable server that answers
\* (no lost connection, no refused connection) returns and does not raise,
\* also at a start-up that finds the departments table emptied while the
\* seeded employees are still stored.
C28_InitializeNeverRaises ==
    ( /\ last.op = "initialize_database"
      /\ last.fault = 0 )
    => last.outcome = "return"

(***************************************************************************)
(* The text report over employees with and without a department.           *)
(***************************************************************************)

\* C29: generate_report_text, called while the queries of the database
\* succeed, returns the report and does not raise, also when some of the
\* stored employees have a department and others have none.
C29_ReportNeverRaises ==
    ( /\ last.op = "generate_report_text"
      /\ last.fault = 0 )
    => last.outcome = "return"

(***************************************************************************)
(* The employee listing of the text report, under SpecSearch.              *)
(***************************************************************************)

\* C30: the employee listing of a report that was returned has one row for
\* each employee that get_all returns, in the order of get_all, the
\* employees without department included: no employee is left out.
C30_EmployeeListing ==
    ( /\ last.op = "generate_report_text"
      /\ last.fault = 0
      /\ last.outcome = "return" )
    => LET rows == employee_get_all(departments, employees, 0).value
           listing == last.value.employee_listing
       IN /\ Len(listing) = Len(rows)
          /\ \A i \in 1..Len(rows) :
                i <= Len(listing) => listing[i].emp_id = rows[i].id

====
